---- MODULE Spec2Model ----
(***************************************************************************)
(* Verification model of the easyEmail backend: the Email table and its    *)
(* soft/hard delete life cycle, the HTTP handlers of routes_email/emails.py*)
(* and routes_drafts.py, the Celery tasks of tasks/email_tasks.py, the     *)
(* Gmail service's 401 handling and the vector store's similarity search.  *)
(***************************************************************************)
EXTENDS Integers, Sequences, FiniteSets, Bags, TLC

(***************************************************************************)
(* Bounds of the model.                                                    *)
(***************************************************************************)
NumMsgs == 2        \* messages in the provider mailbox
MaxEmailId == 2     \* ids the emails sequence hands out
MaxQueue == 2       \* jobs waiting in the broker
MaxBatch == 2       \* ids in one batch-delete request
NumWorkers == 2     \* Celery workers that may run fetch_emails_from_account at once
MaxK == 2           \* the largest k / limit of a similarity request
MaxDepth == 3       \* frames of one GmailService method the interpreter allows
MaxDrafts == 2      \* rows of the drafts table
MaxSends == 2       \* cap of the sends counter
MaxStored == 2      \* rows of a stored emails table drawn as input
MaxDocs == 3        \* rows and documents of a stored table and collection drawn as input
MaxLimit == 2       \* largest limit of a list request
MaxOffset == 2      \* largest offset of a list request
MaxTime == 3        \* instants a received_at or a date_range bound is drawn from
MaxMatches == 2     \* cap of a rule's match_count
MaxClock == 12      \* minutes the clock and a token expiry are drawn from
MaxRules == 2       \* stored rules a pass of the rule engine loops over
MaxPasses == 1      \* passes of the rule engine one worker runs
MaxConnects == 2    \* connect / callback requests one server process serves
MaxSessions == 3    \* database sessions the worker processes open
MaxListed == 12     \* messages a listing of the counted fetch loop holds
MaxTotal == 12      \* messages / rows one fetch or sync invocation loops over

None == "none"
NoRow == [missing |-> TRUE]     \* what a query answers when no row matches
NoConfidence == -1              \* a NULL classification_confidence

MsgIds == 1..NumMsgs
EmailIds == 1..MaxEmailId
RequestIds == EmailIds          \* ids a request names; a row may not exist yet, or no longer
AccountIds == {1, 2}          \* account 1 is the connected Gmail account, 2 does not exist

\* models.EmailStatus
UNREAD == "unread"
READ == "read"
ARCHIVED == "archived"
DELETED == "deleted"
EmailStatus == {UNREAD, READ, ARCHIVED, DELETED}

VARIABLES
    emails,     \* the emails table: id -> row
    nextId,     \* the next value of the emails id sequence
    gmail,      \* provider side: ids of the messages in the Gmail mailbox
    vstore,     \* vector store collection: ids of the emails that have a document
    queue,      \* broker: bag of jobs submitted with delay / apply_async
    fetch,      \* fetch_emails_from_account invocations, one per worker
    backend,    \* result backend: per worker, what its last finished fetch returned
    resp,       \* the last HTTP response: [op, arg, code]
    body,       \* what the last list / search call returned
    call,       \* the GmailService call in progress
    drafts,     \* the drafts table: id -> row
    sends,      \* how often a handler has invoked GmailService.send_message
    rules,      \* the rules table: id -> row
    logs,       \* the logs table, in insertion order
    deljob,     \* the delete_email task invocation in progress
    tasks,      \* Celery result backend: task id -> [state, info]
    poll,       \* the GET /task/{task_id} request in progress
    passes,     \* process_email_with_rules invocations, one per worker
    genjob,     \* the generate_draft task invocation in progress
    users,      \* the users table, in insertion order
    accounts,   \* the email_accounts table, in insertion order
    conn,       \* gmail_callback / connect_email requests, one per worker
    dbtask,     \* DatabaseTask instances, one per worker process, and the sessions
    labels,     \* provider side: message id -> its labels, for the messages followed
    progress,   \* the counters and update_state payloads of one fetch loop
    ret         \* what the last service call returned: [op, arg, value]

vars == <<emails, nextId, gmail, vstore, queue, fetch, backend, resp, body, call, drafts, sends,
          rules, logs, deljob, tasks, poll, passes, genjob, users, accounts, conn, dbtask,
          labels, progress, ret>>

\* the tables and records the handlers and tasks of emails.py, routes_drafts.py
\* and the fetch / batch tasks never touch
\* the state of draft generation, account connection, task sessions, provider
\* labels and fetch progress
others == <<genjob, users, accounts, conn, dbtask, labels, progress>>

\* the variables the handlers of the mail views never touch
more == <<passes, others>>

rest == <<rules, logs, deljob, tasks, poll, ret, more>>

Min(a, b) == IF a < b THEN a ELSE b
Max(a, b) == IF a > b THEN a ELSE b

(***************************************************************************)
(* crud.py                                                                 *)
(***************************************************************************)
\* crud.get_email: the row, or NoRow for Python's None
get_email(tbl, email_id) ==
    IF email_id \in DOMAIN tbl THEN tbl[email_id] ELSE NoRow

\* crud.get_email_by_provider_id: ids of the rows with that provider_message_id
\* (variant: a lookup that finds no row)
NeverFindsRow(tbl, message_id) == {}

get_email_by_provider_id(tbl, message_id) ==
    {e \in DOMAIN tbl : tbl[e].provider_message_id = message_id}

\* crud.update_email restricted to one column (no vector-content column is
\* among status / is_important / category / classification_confidence, so
\* needs_vector_update is false); a missing row is left alone.
update_email(tbl, email_id, column, value) ==
    IF email_id \in DOMAIN tbl
    THEN [tbl EXCEPT ![email_id] = [@ EXCEPT ![column] = value]]
    ELSE tbl

\* the filter chain of crud.get_emails: status, else exclude_deleted, then category
\* (variant: the exclude_deleted branch left out)
KeepsDeleted(tbl, status, category, exclude_deleted) ==
    {e \in DOMAIN tbl :
        /\ (status # None => tbl[e].status = status)
        /\ (category # None => tbl[e].category = category)}

EmailQuery(tbl, status, category, exclude_deleted) ==
    {e \in DOMAIN tbl :
        /\ IF status # None THEN tbl[e].status = status
           ELSE (exclude_deleted => tbl[e].status # DELETED)
        /\ (category # None => tbl[e].category = category)}

\* ORDER BY received_at DESC: every order of S the database may answer with
\* (rows with equal received_at come in an order SQL does not fix)
OrderByReceivedDesc(tbl, S) ==
    {s \in [1..Cardinality(S) -> S] :
        /\ \A i, j \in 1..Cardinality(S) : i # j => s[i] # s[j]
        /\ \A i, j \in 1..Cardinality(S) :
              i < j => tbl[s[i]].received_at >= tbl[s[j]].received_at}

\* .offset(offset).limit(limit)
OffsetLimit(s, offset, limit) ==
    SubSeq(s, offset + 1, Min(Len(s), offset + limit))

\* crud.get_emails: the (items, total) pairs the call may return
get_emails(tbl, status, category, limit, offset, exclude_deleted) ==
    LET q == EmailQuery(tbl, status, category, exclude_deleted)
    IN  {[items |-> OffsetLimit(s, offset, limit), total |-> Cardinality(q)] :
            s \in OrderByReceivedDesc(tbl, q)}

Range(s) == {s[i] : i \in DOMAIN s}

(***************************************************************************)
(* Gmail provider boundary                                                 *)
(***************************************************************************)
\* messages().list: the mailbox listing, newest message first
RECURSIVE ListingOf(_)
ListingOf(S) ==
    IF S = {} THEN <<>>
    ELSE LET m == CHOOSE x \in S : \A y \in S : x >= y
         IN  <<m>> \o ListingOf(S \ {m})

\* internalDate of a message (fixed at the provider)
ReceivedAt(m) == m

\* the job records of the broker
DeleteJob(email_id) == [task |-> "delete_email", arg |-> <<email_id>>]
BatchJob(email_ids) == [task |-> "delete_emails_batch", arg |-> email_ids]

Enqueue(q, job) == q (+) SetToBag({job})
Dequeue(q, job) == q (-) SetToBag({job})

\* models.ClassificationCategory values and confidences an LLM answer is drawn from
Categories == {"urgent"}
Confidences == {80}
LLMAnswers ==
    {[category |-> None, confidence |-> NoConfidence]} \cup
    {[category |-> c, confidence |-> k] : c \in Categories, k \in Confidences}

\* email_ids of a batch-delete request: lists of at most MaxBatch ids
BatchRequests == UNION {[1..n -> RequestIds] : n \in 0..MaxBatch}

Workers == 1..NumWorkers

\* instants of the clock
Times == 1..MaxTime

NoResp == [op |-> None, arg |-> <<>>, code |-> 0]
NoBody == [items |-> <<>>, total |-> 0]
\* no GmailService call in progress
IdleCall == [method |-> None, pc |-> "idle", depth |-> 0, refreshes |-> 0,
             attempts |-> 0, ret |-> None, status |-> 0, exc |-> None]
\* a worker not running fetch_emails_from_account
IdleFetch == [pc |-> "idle", listing |-> <<>>, idx |-> 1,
              new_count |-> 0, skipped_count |-> 0, error_count |-> 0]

\* no delete_email invocation in progress
IdleJob == [pc |-> "idle", email_id |-> 0, vector |-> None, result |-> <<>>]
IdlePoll == [pc |-> "idle", task_id |-> 0, cache |-> <<>>, meta |-> <<>>, state |-> None]
\* a worker not running process_email_with_rules
IdlePass == [pc |-> "idle", email_id |-> 0, todo |-> <<>>, read |-> 0, results |-> <<>>,
             runs |-> 0, succeeded |-> EmptyBag]
IdlePasses == [w \in Workers |-> IdlePass]
\* no generate_draft invocation in progress
IdleGen == [pc |-> "idle", email_id |-> 0, draft_id |-> 0, content |-> <<>>, outcome |-> None,
            result |-> <<>>]
\* a worker serving no gmail_callback / connect_email request
IdleConn == [pc |-> "idle", via |-> None, address |-> None, token |-> 0, user_id |-> 0,
             account_id |-> 0, runs |-> 0]
IdleConns == [w \in Workers |-> IdleConn]
\* DatabaseTask._db = None in every worker process, no session ever opened
\* how: the way the last invocation of the process ended
IdleTask == [pc |-> "idle", db |-> 0, used |-> {}, how |-> None]
IdleTasks == [procs |-> [w \in Workers |-> IdleTask], sessions |-> <<>>]
\* no fetch loop counted yet
IdleProgress == [pc |-> "idle", total |-> 0, idx |-> 0, new_count |-> 0, skipped_count |-> 0,
                 error_count |-> 0, published |-> <<>>, result |-> <<>>]
\* the tables and requests of the specifications that do not involve them
QuietOthers ==
    /\ genjob = IdleGen
    /\ users = <<>>
    /\ accounts = <<>>
    /\ conn = IdleConns
    /\ dbtask = IdleTasks
    /\ labels = <<>>
    /\ progress = IdleProgress
NoRet == [op |-> None, arg |-> <<>>, value |-> <<>>]
Returned(op, arg, value) == [op |-> op, arg |-> arg, value |-> value]

Response(op, arg, code) == [op |-> op, arg |-> arg, code |-> code]

Without(tbl, email_id) == [e \in DOMAIN tbl \ {email_id} |-> tbl[e]]

(***************************************************************************)
(* routes_email/emails.py: handlers                                        *)
(***************************************************************************)
\* DELETE /{email_id}: soft delete, then submit the delete_email task
delete_email(email_id, broker_ok) ==
    /\ BagCardinality(queue) < MaxQueue
    /\ IF get_email(emails, email_id) = NoRow
       THEN /\ resp' = Response("delete_email", <<email_id>>, 404)
            /\ UNCHANGED <<emails, queue>>
       ELSE /\ emails' = update_email(emails, email_id, "status", DELETED)
            /\ IF broker_ok
               THEN /\ queue' = Enqueue(queue, DeleteJob(email_id))
                    /\ resp' = Response("delete_email", <<email_id>>, 200)
               ELSE /\ queue' = queue
                    /\ resp' = Response("delete_email", <<email_id>>, 500)
    /\ UNCHANGED <<nextId, gmail, vstore, fetch, backend, body, call, drafts, sends, rest>>

\* GmailService.modify_message: the labels of the message after the call.
\* modify_ok is the boolean the method returns (False without a service, on
\* an HttpError, for a message the mailbox does not hold)
modify_message(lbl, message_id, add_labels, remove_labels, modify_ok) ==
    IF modify_ok /\ message_id \in DOMAIN lbl
    THEN [lbl EXCEPT ![message_id] = (@ \cup add_labels) \ remove_labels]
    ELSE lbl

\* POST /{email_id}/mark-read: the row is set to READ whatever its status was,
\* then service.mark_as_read removes the label UNREAD; the boolean it returns
\* is not looked at
mark_as_read(email_id, modify_ok) ==
    /\ IF get_email(emails, email_id) = NoRow
       THEN /\ resp' = Response("mark_as_read", <<email_id>>, 404)
            /\ UNCHANGED <<emails, labels>>
       ELSE /\ emails' = update_email(emails, email_id, "status", READ)
            /\ labels' = modify_message(labels, emails[email_id].provider_message_id,
                                        {}, {"UNREAD"}, modify_ok)
            /\ resp' = Response("mark_as_read", <<email_id>>, 200)
    /\ UNCHANGED <<nextId, gmail, vstore, queue, fetch, backend, body, call, drafts, sends,
                   rules, logs, deljob, tasks, poll, ret, passes, genjob, users, accounts,
                   conn, dbtask, progress>>

\* POST /{email_id}/mark-unread: the row is set to UNREAD, then
\* service.mark_as_unread is looked up on GmailService, which defines no such
\* method: AttributeError, answered as 500 after the row was committed
mark_as_unread(email_id) ==
    /\ IF get_email(emails, email_id) = NoRow
       THEN /\ resp' = Response("mark_as_unread", <<email_id>>, 404)
            /\ emails' = emails
       ELSE /\ emails' = update_email(emails, email_id, "status", UNREAD)
            /\ resp' = Response("mark_as_unread", <<email_id>>, 500)
    /\ UNCHANGED <<nextId, gmail, vstore, queue, fetch, backend, body, call, drafts, sends, rest>>

\* POST /{email_id}/mark-important: the row is flagged, then
\* service.mark_as_important adds the label IMPORTANT; the boolean it returns
\* is not looked at
mark_as_important(email_id, modify_ok) ==
    /\ IF get_email(emails, email_id) = NoRow
       THEN /\ resp' = Response("mark_as_important", <<email_id>>, 404)
            /\ UNCHANGED <<emails, labels>>
       ELSE /\ emails' = update_email(emails, email_id, "is_important", TRUE)
            /\ labels' = modify_message(labels, emails[email_id].provider_message_id,
                                        {"IMPORTANT"}, {}, modify_ok)
            /\ resp' = Response("mark_as_important", <<email_id>>, 200)
    /\ UNCHANGED <<nextId, gmail, vstore, queue, fetch, backend, body, call, drafts, sends,
                   rules, logs, deljob, tasks, poll, ret, passes, genjob, users, accounts,
                   conn, dbtask, progress>>

\* the loop "for eid in email_ids: crud.update_email(db, eid, status=DELETED)"
RECURSIVE MarkAllDeleted(_, _)
MarkAllDeleted(tbl, email_ids) ==
    IF email_ids = <<>> THEN tbl
    ELSE MarkAllDeleted(update_email(tbl, Head(email_ids), "status", DELETED),
                        Tail(email_ids))

\* the validation loop of batch_delete_emails: every id names a row
\* (variant: only the first id is looked up)
BatchChecksFirstOnly(tbl, email_ids) ==
    get_email(tbl, email_ids[1]) # NoRow

BatchAllExist(tbl, email_ids) ==
    \A i \in DOMAIN email_ids : get_email(tbl, email_ids[i]) # NoRow

\* POST /batch-delete (the request body always carries a list here)
batch_delete_emails(email_ids, broker_ok) ==
    /\ BagCardinality(queue) < MaxQueue
    /\ IF email_ids = <<>>
       THEN /\ resp' = Response("batch_delete_emails", email_ids, 400)
            /\ UNCHANGED <<emails, queue>>
       ELSE IF ~BatchAllExist(emails, email_ids)
       THEN /\ resp' = Response("batch_delete_emails", email_ids, 404)
            /\ UNCHANGED <<emails, queue>>
       ELSE /\ emails' = MarkAllDeleted(emails, email_ids)
            /\ IF broker_ok
               THEN /\ queue' = Enqueue(queue, BatchJob(email_ids))
                    /\ resp' = Response("batch_delete_emails", email_ids, 200)
               ELSE /\ queue' = queue
                    /\ resp' = Response("batch_delete_emails", email_ids, 500)
    /\ UNCHANGED <<nextId, gmail, vstore, fetch, backend, body, call, drafts, sends, rest>>

\* GET /{email_id}: the status code of the detail endpoint
\* (variant: no test of the row's status)
DetailIgnoresStatus(tbl, email_id) ==
    IF get_email(tbl, email_id) = NoRow THEN 404 ELSE 200

get_email_detail(tbl, email_id) ==
    IF get_email(tbl, email_id) = NoRow THEN 404
    ELSE IF tbl[email_id].status = DELETED THEN 404
    ELSE 200

(***************************************************************************)
(* tasks/email_tasks.py                                                    *)
(***************************************************************************)
\* what GmailService.delete_message hands back to the task: True, False, or
\* an exception (the 429 message, or an error naming the missing permission)
DeleteOutcomes == {"ok", "false", "rate_limited", "denied"}

\* the outcome of service.delete_message for a row: a message the mailbox no
\* longer holds answers 404, which delete_message turns into False
ProviderDelete(tbl, mailbox, email_id, outcome) ==
    IF outcome = "ok" /\ tbl[email_id].provider_message_id \notin mailbox
    THEN "false" ELSE outcome

\* the dict the delete_email task returns
delete_email_result(tbl, mailbox, email_id, outcome) ==
    IF get_email(tbl, email_id) = NoRow
    THEN [success |-> FALSE, message |-> "not_found", requires_reauth |-> FALSE]
    ELSE LET got == ProviderDelete(tbl, mailbox, email_id, outcome)
         IN  [success |-> got = "ok", message |-> got, requires_reauth |-> got = "denied"]

\* delete_email task: provider delete, vector-store delete, row delete
delete_email_task(email_id, outcome, vector_ok) ==
    /\ BagIn(DeleteJob(email_id), queue)
    /\ queue' = Dequeue(queue, DeleteJob(email_id))
    /\ IF delete_email_result(emails, gmail, email_id, outcome).success
       THEN /\ gmail' = gmail \ {emails[email_id].provider_message_id}
            /\ vstore' = IF vector_ok THEN vstore \ {email_id} ELSE vstore
            /\ emails' = Without(emails, email_id)
       ELSE UNCHANGED <<emails, gmail, vstore>>
    /\ UNCHANGED <<nextId, fetch, backend, resp, body, call, drafts, sends, rest>>

\* the loop of delete_emails_batch: one delete_email job per id
RECURSIVE SubmitAll(_, _)
SubmitAll(q, email_ids) ==
    IF email_ids = <<>> THEN q
    ELSE SubmitAll(Enqueue(q, DeleteJob(Head(email_ids))), Tail(email_ids))

\* delete_emails_batch task
delete_emails_batch(email_ids) ==
    /\ BagIn(BatchJob(email_ids), queue)
    /\ queue' = SubmitAll(Dequeue(queue, BatchJob(email_ids)), email_ids)
    /\ UNCHANGED <<emails, nextId, gmail, vstore, fetch, backend, resp, body, call, drafts, sends, rest>>

\* process_email task: classify when uncategorised or forced
process_email(email_id, force_classify, answer) ==
    /\ IF /\ get_email(emails, email_id) # NoRow
          /\ (emails[email_id].category = None \/ force_classify)
          /\ answer.category # None
       THEN emails' = [emails EXCEPT ![email_id] =
                         [@ EXCEPT !.category = answer.category,
                                   !.classification_confidence = answer.confidence]]
       ELSE emails' = emails
    /\ UNCHANGED <<nextId, gmail, vstore, queue, fetch, backend, resp, body, call, drafts, sends, rest>>

\* sync_email_status task. For every row of the account the loop body starts
\* with service.check_message_exists, a method GmailService does not define:
\* the AttributeError is caught by the per-email except, so no row is touched
\* and synced_count, updated_count and deleted_count stay 0.
sync_email_status(account_id) ==
    /\ account_id \in AccountIds
    /\ UNCHANGED vars

\* the dict fetch_emails_from_account returns
FetchFailure(message) ==
    [success |-> FALSE, message |-> message, total_messages |-> 0,
     new_count |-> 0, skipped_count |-> 0, error_count |-> 0]
FetchSuccess(f) ==
    [success |-> TRUE, message |-> None, total_messages |-> Len(f.listing),
     new_count |-> f.new_count, skipped_count |-> f.skipped_count,
     error_count |-> f.error_count]
NoFetchYet == FetchFailure("never_ran")

\* the row crud.create_email inserts for a fetched message: email_data has no
\* "status" key, so email_data.get("status", "unread") is always "unread"
NewEmail(message_id) ==
    [provider_message_id |-> message_id, status |-> UNREAD, is_important |-> FALSE,
     category |-> None, classification_confidence |-> NoConfidence,
     received_at |-> ReceivedAt(message_id)]

\* Email.provider_message_id is declared unique=True
UniqueViolation(tbl, message_id) ==
    \E e \in DOMAIN tbl : tbl[e].provider_message_id = message_id

\* fetch_emails_from_account, up to the loop: account lookup and
\* service.get_messages(fetch_all=True), which answers [] on an HttpError
fetch_start(w, account_id, list_ok) ==
    /\ fetch[w].pc = "idle"
    /\ IF account_id # 1
       THEN /\ backend' = [backend EXCEPT ![w] = FetchFailure("no_account")]
            /\ fetch' = fetch
       ELSE /\ fetch' = [fetch EXCEPT ![w] =
                 [IdleFetch EXCEPT !.pc = "loop",
                                   !.listing = IF list_ok THEN ListingOf(gmail) ELSE <<>>]]
            /\ backend' = backend
    /\ UNCHANGED <<emails, nextId, gmail, vstore, queue, resp, body, call, drafts, sends, rest>>

\* loop head for messages[idx]: crud.get_email_by_provider_id. For a row that
\* exists the reconciliation calls service.get_message_state, which
\* GmailService does not define; the AttributeError is caught inside the
\* loop, the row is not touched, skipped_count is increased.
fetch_check(w) ==
    /\ fetch[w].pc = "loop"
    /\ fetch[w].idx <= Len(fetch[w].listing)
    /\ LET message_id == fetch[w].listing[fetch[w].idx]
       IN  IF get_email_by_provider_id(emails, message_id) # {}
           THEN fetch' = [fetch EXCEPT ![w].skipped_count = @ + 1, ![w].idx = @ + 1]
           ELSE fetch' = [fetch EXCEPT ![w].pc = "get"]
    /\ UNCHANGED <<emails, nextId, gmail, vstore, queue, backend, resp, body, call, drafts, sends, rest>>

\* service.get_message, crud.create_email, vector_store.add_email
fetch_insert(w, detail_ok, vector_ok) ==
    /\ fetch[w].pc = "get"
    /\ LET message_id == fetch[w].listing[fetch[w].idx]
       IN  IF ~detail_ok \/ message_id \notin gmail
           THEN \* get_message answered None or raised
                /\ fetch' = [fetch EXCEPT ![w].error_count = @ + 1, ![w].idx = @ + 1,
                                          ![w].pc = "loop"]
                /\ UNCHANGED <<emails, nextId, vstore, backend>>
           ELSE IF UniqueViolation(emails, message_id)
           THEN \* db.commit() raises IntegrityError: the outer except returns
                /\ backend' = [backend EXCEPT ![w] = FetchFailure("integrity_error")]
                /\ fetch' = [fetch EXCEPT ![w] = IdleFetch]
                /\ UNCHANGED <<emails, nextId, vstore>>
           ELSE /\ nextId <= MaxEmailId
                /\ emails' = (nextId :> NewEmail(message_id)) @@ emails
                /\ nextId' = nextId + 1
                /\ vstore' = IF vector_ok THEN vstore \cup {nextId} ELSE vstore
                /\ fetch' = [fetch EXCEPT ![w].new_count = @ + 1, ![w].idx = @ + 1,
                                          ![w].pc = "loop"]
                /\ backend' = backend
    /\ UNCHANGED <<gmail, queue, resp, body, call, drafts, sends, rest>>

\* after the loop: the success dict
fetch_finish(w) ==
    /\ fetch[w].pc = "loop"
    /\ fetch[w].idx > Len(fetch[w].listing)
    /\ backend' = [backend EXCEPT ![w] = FetchSuccess(fetch[w])]
    /\ fetch' = [fetch EXCEPT ![w] = IdleFetch]
    /\ UNCHANGED <<emails, nextId, gmail, vstore, queue, resp, body, call, drafts, sends, rest>>

\* fetch_emails_from_account as run by worker w
fetch_emails_from_account(w) ==
    \/ \E account_id \in AccountIds, list_ok \in BOOLEAN : fetch_start(w, account_id, list_ok)
    \/ fetch_check(w)
    \/ \E detail_ok \in BOOLEAN, vector_ok \in BOOLEAN : fetch_insert(w, detail_ok, vector_ok)
    \/ fetch_finish(w)

(***************************************************************************)
(* GET /list                                                               *)
(***************************************************************************)
\* the status query parameter: absent, a member of EmailStatus, or anything else
StatusParams == EmailStatus \cup {None, "bogus"}

\* GET /list with sync_deleted left at False: crud.get_emails with the
\* default exclude_deleted=True
get_emails_endpoint(status, category, limit, offset) ==
    /\ IF status \notin EmailStatus \cup {None}
       THEN /\ resp' = Response("get_emails", <<limit, offset>>, 400)
            /\ body' = [items |-> <<>>, total |-> 0,
                        status |-> status, category |-> category]
       ELSE /\ resp' = Response("get_emails", <<limit, offset>>, 200)
            /\ \E page \in get_emails(emails, status, category, limit, offset, TRUE) :
                  body' = [items |-> page.items, total |-> page.total,
                           status |-> status, category |-> category]
    /\ UNCHANGED <<emails, nextId, gmail, vstore, queue, fetch, backend, call, drafts, sends, rest>>

(***************************************************************************)
(* services/vector_store.py                                                *)
(***************************************************************************)
RAG_TOP_K == 5
NoK == -1       \* k left at its default None

\* Python's "k or default": None and 0 are both falsy
Truthy(k) == k # NoK /\ k # 0
KOr(k, default) == IF Truthy(k) THEN k ELSE default

Take(s, n) == SubSeq(s, 1, Min(Len(s), n))

\* PGVector.similarity_search_with_score(query, k): the k nearest documents.
\* Which documents are nearest depends on the embeddings, so every ranking
\* of k documents of the collection is a possible answer.
similarity_search_with_score(store, k) ==
    LET n == Min(k, Cardinality(store))
    IN  {s \in [1..n -> store] : \A i, j \in 1..n : i # j => s[i] # s[j]}

\* the check made per document when a db session is given:
\* a row with that id exists and its status is not DELETED
StillValid(tbl, doc) ==
    doc \in DOMAIN tbl /\ tbl[doc].status # DELETED

\* VectorStoreService.search_similar_emails: the lists it may return
search_similar_emails(store, tbl, k, has_db) ==
    LET k0 == KOr(k, RAG_TOP_K)
        search_k == IF has_db THEN k0 * 2 ELSE k0
        Valid(doc) == StillValid(tbl, doc)
    IN  {IF has_db THEN Take(SelectSeq(documents, Valid), k0) ELSE documents :
            documents \in similarity_search_with_score(store, search_k)}

\* the filter "doc.metadata.get('email_id') != email.id"
\* (variant: nothing filtered out)
KeepsSeed(doc, email_id) == TRUE

NotSeed(doc, email_id) == doc # email_id

\* VectorStoreService.get_email_context: the lists it may return
get_email_context(store, tbl, email_id, k, has_db) ==
    LET search_k == KOr(k, RAG_TOP_K) + 1
        Other(doc) == NotSeed(doc, email_id)
    IN  {Take(SelectSeq(results, Other), KOr(k, RAG_TOP_K)) :
            results \in search_similar_emails(store, tbl, search_k, has_db)}

\* values of k the service methods are called with
Ks == {NoK} \cup (0..MaxK)

\* GET /{email_id}/similar, limit between 1 and 20:
\* vector_store.get_email_context(email, k=limit), no db session passed
get_similar_emails(email_id, limit) ==
    /\ IF get_email(emails, email_id) = NoRow
       THEN /\ resp' = Response("get_similar_emails", <<email_id, limit>>, 404)
            /\ body' = NoBody
       ELSE /\ resp' = Response("get_similar_emails", <<email_id, limit>>, 200)
            /\ \E docs \in get_email_context(vstore, emails, email_id, limit, FALSE) :
                  body' = [items |-> docs, total |-> Len(docs)]
    /\ UNCHANGED <<emails, nextId, gmail, vstore, queue, fetch, backend, call, drafts, sends, rest>>

\* VectorStoreService.get_email_context called for a stored email
get_email_context_call(email_id, k, has_db) ==
    /\ email_id \in DOMAIN emails
    /\ resp' = Response("get_email_context", <<email_id, k>>, 200)
    /\ \E docs \in get_email_context(vstore, emails, email_id, k, has_db) :
          body' = [items |-> docs, total |-> Len(docs)]
    /\ UNCHANGED <<emails, nextId, gmail, vstore, queue, fetch, backend, call, drafts, sends, rest>>

\* VectorStoreService.search_similar_emails called with a query text
search_similar_emails_call(k, has_db) ==
    /\ resp' = Response("search_similar_emails", <<0, k>>, 200)
    /\ \E docs \in search_similar_emails(vstore, emails, k, has_db) :
          body' = [items |-> docs, total |-> Len(docs)]
    /\ UNCHANGED <<emails, nextId, gmail, vstore, queue, fetch, backend, call, drafts, sends, rest>>

(***************************************************************************)
(* services/gmail_service.py: one call of a GmailService method            *)
(***************************************************************************)
Methods == {"get_messages", "get_message", "send_message", "create_draft",
            "delete_draft", "modify_message", "delete_message"}

\* raise Exception("Gmail API限流，请稍后重试") of delete_message
RATE_LIMITED == "rate_limited"

\* HTTP status of a provider answer
HttpStatuses == {200, 401, 403, 404, 429}

\* "if not self.service: if not self.refresh_token(): return ..." at the top
\* of every method, then the try block
gmail_call(method, has_service, refresh_ok) ==
    /\ call.pc \in {"idle", "done"}
    /\ IF has_service
       THEN call' = [IdleCall EXCEPT !.method = method, !.pc = "try", !.depth = 1]
       ELSE IF refresh_ok
       THEN call' = [IdleCall EXCEPT !.method = method, !.pc = "try", !.depth = 1,
                                     !.refreshes = 1]
       ELSE call' = [IdleCall EXCEPT !.method = method, !.pc = "done",
                                     !.refreshes = 1, !.ret = "failure"]
    /\ UNCHANGED <<emails, nextId, gmail, vstore, queue, fetch, backend, resp, body, drafts, sends, rest>>

\* the try block: one request to the provider (get_messages is modelled with
\* a one-page listing). send_message reads the name thread_id, which is
\* neither a parameter nor a local: NameError before any request is made.
gmail_execute(status) ==
    /\ call.pc = "try"
    /\ IF call.method = "send_message"
       THEN call' = [call EXCEPT !.pc = "done", !.ret = "raised", !.exc = "NameError"]
       ELSE IF status = 200
       THEN call' = [call EXCEPT !.pc = "done", !.ret = "ok", !.attempts = @ + 1,
                                 !.status = status]
       ELSE IF status = 401
       THEN call' = [call EXCEPT !.pc = "except", !.attempts = @ + 1, !.status = status]
       ELSE IF status = 429 /\ call.method = "delete_message"
       THEN call' = [call EXCEPT !.pc = "done", !.ret = "raised", !.attempts = @ + 1,
                                 !.status = status, !.exc = RATE_LIMITED]
       ELSE call' = [call EXCEPT !.pc = "done", !.ret = "failure", !.attempts = @ + 1,
                                 !.status = status]
    /\ UNCHANGED <<emails, nextId, gmail, vstore, queue, fetch, backend, resp, body, drafts, sends, rest>>

\* "if e.resp.status == 401: if self.refresh_token(): return self.<method>(...)":
\* the method calls itself again, one frame deeper, whenever the refresh
\* reports success; past MaxDepth frames the interpreter raises RecursionError
gmail_handle_401(refresh_ok) ==
    /\ call.pc = "except"
    /\ IF ~refresh_ok
       THEN call' = [call EXCEPT !.pc = "done", !.ret = "failure", !.refreshes = @ + 1]
       ELSE IF call.depth < MaxDepth
       THEN call' = [call EXCEPT !.pc = "try", !.depth = @ + 1, !.refreshes = @ + 1]
       ELSE call' = [call EXCEPT !.pc = "done", !.ret = "raised", !.refreshes = @ + 1,
                                 !.exc = "RecursionError"]
    /\ UNCHANGED <<emails, nextId, gmail, vstore, queue, fetch, backend, resp, body, drafts, sends, rest>>

(***************************************************************************)
(* tasks/email_tasks.py: the delete_email task, statement by statement     *)
(***************************************************************************)
\* "if "权限不足" in error_msg or "insufficientPermissions" in error_msg or
\*  "Insufficient Permission" in error_msg": whether the text of an
\* exception names the missing permission
\* (variant: every error text taken for a permission error)
NamesAnyError(exc) == exc # None

NamesPermission(exc) == exc \in {"insufficientPermissions", "Insufficient Permission"}

\* what the task returns when service.delete_message did not return True,
\* and <<>> when it did and the task goes on
\* (variant: the test "if not success" left out)
IgnoresFalse(c) ==
    IF c.ret \in {"ok", "failure"} THEN <<>>
    ELSE IF NamesPermission(c.exc)
    THEN [success |-> FALSE, message |-> "reauthorize", requires_reauth |-> TRUE]
    ELSE [success |-> FALSE, message |-> c.exc]

ProviderFailure(c) ==
    IF c.ret = "ok" THEN <<>>
    ELSE IF c.ret = "failure"
    THEN [success |-> FALSE, message |-> "provider_delete_failed"]
    ELSE IF NamesPermission(c.exc)
    THEN [success |-> FALSE, message |-> "reauthorize", requires_reauth |-> TRUE]
    ELSE [success |-> FALSE, message |-> c.exc]

\* Email.drafts: cascade="all, delete-orphan"
CascadeDrafts(tbl, email_id) ==
    [d \in {x \in DOMAIN tbl : tbl[x].email_id # email_id} |-> tbl[d]]

\* "email = crud.get_email(db, email_id)" up to "service = GmailService(account)"
delete_email_start(email_id) ==
    /\ deljob.pc \in {"idle", "done"}
    /\ IF get_email(emails, email_id) = NoRow
       THEN /\ deljob' = [IdleJob EXCEPT !.pc = "done", !.email_id = email_id,
                                         !.result = [success |-> FALSE,
                                                     message |-> "not_found"]]
            /\ UNCHANGED call
       ELSE /\ deljob' = [IdleJob EXCEPT !.pc = "call", !.email_id = email_id]
            /\ call' = IdleCall
    /\ UNCHANGED <<emails, nextId, gmail, vstore, queue, fetch, backend, resp, body,
                   drafts, sends, rules, logs, tasks, poll, ret, more>>

\* "success = service.delete_message(email.provider_message_id)" has returned
\* or raised: "if not success: return ..." and the except block
delete_email_provider_done ==
    /\ deljob.pc = "call"
    /\ call.pc = "done"
    /\ IF ProviderFailure(call) = <<>>
       THEN /\ deljob' = [deljob EXCEPT !.pc = "vector"]
            /\ gmail' = gmail \ {emails[deljob.email_id].provider_message_id}
       ELSE /\ deljob' = [deljob EXCEPT !.pc = "done", !.result = ProviderFailure(call)]
            /\ UNCHANGED gmail
    /\ UNCHANGED <<emails, nextId, vstore, queue, fetch, backend, resp, body, call,
                   drafts, sends, rules, logs, tasks, poll, ret, more>>

\* "vector_store.delete_email(email_id)" in its own try / except
delete_email_vector(vector_ok) ==
    /\ deljob.pc = "vector"
    /\ vstore' = IF vector_ok THEN vstore \ {deljob.email_id} ELSE vstore
    /\ deljob' = [deljob EXCEPT !.pc = "row",
                                !.vector = IF vector_ok THEN "deleted" ELSE "failed"]
    /\ UNCHANGED <<emails, nextId, gmail, queue, fetch, backend, resp, body, call,
                   drafts, sends, rules, logs, tasks, poll, ret, more>>

\* "db.delete(email); db.commit()" and the return; a commit that raises is
\* rolled back by the outer except block
delete_email_row(commit_ok) ==
    /\ deljob.pc = "row"
    /\ IF commit_ok
       THEN /\ emails' = Without(emails, deljob.email_id)
            /\ drafts' = CascadeDrafts(drafts, deljob.email_id)
            /\ deljob' = [deljob EXCEPT !.pc = "done",
                             !.result = [success |-> TRUE, email_id |-> deljob.email_id]]
       ELSE /\ deljob' = [deljob EXCEPT !.pc = "done",
                             !.result = [success |-> FALSE, message |-> "OperationalError"]]
            /\ UNCHANGED <<emails, drafts>>
    /\ UNCHANGED <<nextId, gmail, vstore, queue, fetch, backend, resp, body, call,
                   sends, rules, logs, tasks, poll, ret, more>>

(***************************************************************************)
(* api/routes_drafts.py                                                    *)
(***************************************************************************)
DraftIds == 1..MaxDrafts
DraftRequestIds == 1..(MaxDrafts + 1)

\* the guard "if draft.is_sent"
\* (variant: the guard left out)
NeverSent(tbl, draft_id) == FALSE

AlreadySent(tbl, draft_id) == tbl[draft_id].is_sent

\* POST /{draft_id}/send. Inside the try block every exception, the 404 for
\* a missing email included, is answered as 500. service.send_message is
\* called with the keyword thread_id, which its signature does not have:
\* TypeError, so crud.update_draft(is_sent=True) is never reached.
send_draft(draft_id) ==
    /\ IF draft_id \notin DOMAIN drafts
       THEN /\ resp' = Response("send_draft", <<draft_id>>, 404)
            /\ sends' = sends
       ELSE IF AlreadySent(drafts, draft_id)
       THEN /\ resp' = Response("send_draft", <<draft_id>>, 400)
            /\ sends' = sends
       ELSE IF get_email(emails, drafts[draft_id].email_id) = NoRow
       THEN /\ resp' = Response("send_draft", <<draft_id>>, 500)
            /\ sends' = sends
       ELSE /\ sends < MaxSends
            /\ sends' = sends + 1
            /\ resp' = Response("send_draft", <<draft_id>>, 500)
    /\ UNCHANGED <<emails, nextId, gmail, vstore, queue, fetch, backend, body, call, drafts, rest>>

\* DELETE /{draft_id}
delete_draft(draft_id) ==
    /\ IF draft_id \notin DOMAIN drafts
       THEN /\ resp' = Response("delete_draft", <<draft_id>>, 404)
            /\ drafts' = drafts
       ELSE /\ resp' = Response("delete_draft", <<draft_id>>, 200)
            /\ drafts' = [d \in DOMAIN drafts \ {draft_id} |-> drafts[d]]
    /\ UNCHANGED <<emails, nextId, gmail, vstore, queue, fetch, backend, body, call, sends, rest>>

(***************************************************************************)
(* services/rule_engine.py: evaluation                                     *)
(***************************************************************************)
\* Texts are sequences of characters; a NULL column and "" are both <<>>,
\* which is how "x or ''" reads them. A dict is a function from its keys;
\* None and {} are both <<>>, which is how "if not condition" reads them.

\* str.lower
Lower(s) == [i \in DOMAIN s |-> IF s[i] = "A" THEN "a" ELSE s[i]]

\* Python's "needle in hay"
Contains(needle, hay) ==
    \E i \in 0..(Len(hay) - Len(needle)) : SubSeq(hay, i + 1, i + Len(needle)) = needle

\* str.startswith, str.endswith
StartsWith(hay, prefix) ==
    Len(prefix) <= Len(hay) /\ SubSeq(hay, 1, Len(prefix)) = prefix
EndsWith(hay, suffix) ==
    Len(suffix) <= Len(hay) /\ SubSeq(hay, Len(hay) - Len(suffix) + 1, Len(hay)) = suffix

\* Python's "a or b" on texts
TextOr(a, b) == IF a # <<>> THEN a ELSE b

\* bool(re.search(pattern, text, re.IGNORECASE)) inside "except re.error:
\* return False", for patterns of literal characters; a pattern holding an
\* unbalanced "(" does not compile
RegexSearch(pattern, text) ==
    IF "(" \in Range(pattern) THEN FALSE
    ELSE Contains(Lower(pattern), Lower(text))

check_sender_condition(email, condition) ==
    IF condition = <<>> THEN TRUE
    ELSE LET sender == TextOr(email.sender_email, email.sender)
             sender_lower == Lower(sender)
         IN  IF "contains" \in DOMAIN condition
             THEN Contains(Lower(condition["contains"]), sender_lower)
             ELSE IF "equals" \in DOMAIN condition
             THEN sender_lower = Lower(condition["equals"])
             ELSE IF "starts_with" \in DOMAIN condition
             THEN StartsWith(sender_lower, Lower(condition["starts_with"]))
             ELSE IF "ends_with" \in DOMAIN condition
             THEN EndsWith(sender_lower, Lower(condition["ends_with"]))
             ELSE IF "regex" \in DOMAIN condition
             THEN RegexSearch(condition["regex"], sender)
             ELSE TRUE

check_subject_condition(email, condition) ==
    IF condition = <<>> THEN TRUE
    ELSE LET subject_lower == Lower(email.subject)
         IN  IF "contains" \in DOMAIN condition
             THEN Contains(Lower(condition["contains"]), subject_lower)
             ELSE IF "equals" \in DOMAIN condition
             THEN subject_lower = Lower(condition["equals"])
             ELSE IF "starts_with" \in DOMAIN condition
             THEN StartsWith(subject_lower, Lower(condition["starts_with"]))
             ELSE IF "regex" \in DOMAIN condition
             THEN RegexSearch(condition["regex"], email.subject)
             ELSE TRUE

check_body_condition(email, condition) ==
    IF condition = <<>> THEN TRUE
    ELSE LET body_lower == Lower(TextOr(email.body_text, email.body_html))
         IN  IF "contains" \in DOMAIN condition
             THEN Contains(Lower(condition["contains"]), body_lower)
             ELSE IF "regex" \in DOMAIN condition
             THEN RegexSearch(condition["regex"], body_lower)
             ELSE TRUE

\* The text of a date_range bound, by the way it is written:
\*   "naive"     2024-01-01 or 2024-01-01T00:00:00, no offset
\*   "utc"       the same with a Z suffix or +00:00
\*   "malformed" not ISO-8601
\* t is the instant it names.
BoundForms == {"naive", "utc", "malformed"}

\* datetime.fromisoformat(text.replace("Z", "+00:00")): ValueError for a
\* malformed text, else a datetime that is aware exactly when the text
\* carries an offset
fromisoformat(text) ==
    [raises |-> text.form = "malformed", aware |-> text.form = "utc", t |-> text.t]

\* "received_at.replace(tzinfo=None) < after_date": the left side is naive,
\* and Python raises TypeError when a naive and an aware datetime are compared
Compare(received_at, date) ==
    IF date.aware THEN "TypeError"
    ELSE IF received_at < date.t THEN "less"
    ELSE IF received_at > date.t THEN "greater"
    ELSE "equal"

\* the try block of one bound: TRUE when it returns False out of the check;
\* "except (ValueError, TypeError): pass" swallows both errors
BoundRejects(received_at, text, rejected) ==
    LET date == fromisoformat(text)
    IN  ~date.raises /\ Compare(received_at, date) = rejected

NoTime == -1        \* a NULL received_at

check_date_range_condition(email, condition) ==
    IF condition = <<>> THEN TRUE
    ELSE IF email.received_at = NoTime THEN FALSE
    ELSE IF "after" \in DOMAIN condition
            /\ BoundRejects(email.received_at, condition["after"], "less")
    THEN FALSE
    ELSE IF "before" \in DOMAIN condition
            /\ BoundRejects(email.received_at, condition["before"], "greater")
    THEN FALSE
    ELSE TRUE

\* RuleEngine.evaluate_rule
\* (variant: returns after the first group that is present)
MatchesOnFirstGroup(email, rule) ==
    IF ~rule.is_active THEN FALSE
    ELSE IF rule.conditions = <<>> THEN FALSE
    ELSE IF "sender" \in DOMAIN rule.conditions
    THEN check_sender_condition(email, rule.conditions["sender"])
    ELSE TRUE

evaluate_rule(email, rule) ==
    IF ~rule.is_active THEN FALSE
    ELSE IF rule.conditions = <<>> THEN FALSE
    ELSE IF "sender" \in DOMAIN rule.conditions
            /\ ~check_sender_condition(email, rule.conditions["sender"])
    THEN FALSE
    ELSE IF "subject" \in DOMAIN rule.conditions
            /\ ~check_subject_condition(email, rule.conditions["subject"])
    THEN FALSE
    ELSE IF "body" \in DOMAIN rule.conditions
            /\ ~check_body_condition(email, rule.conditions["body"])
    THEN FALSE
    ELSE IF "date_range" \in DOMAIN rule.conditions
            /\ ~check_date_range_condition(email, rule.conditions["date_range"])
    THEN FALSE
    ELSE TRUE

\* RuleEngine.evaluate_rule called for a stored email and a stored rule
evaluate_rule_call(email_id, rule_id) ==
    /\ email_id \in DOMAIN emails
    /\ rule_id \in DOMAIN rules
    /\ ret' = Returned("evaluate_rule", <<emails[email_id], rules[rule_id]>>,
                       evaluate_rule(emails[email_id], rules[rule_id]))
    /\ UNCHANGED <<emails, nextId, gmail, vstore, queue, fetch, backend, resp, body, call,
                   drafts, sends, rules, logs, deljob, tasks, poll, more>>

(***************************************************************************)
(* services/classification_service.py                                      *)
(***************************************************************************)
NORMAL == "normal"      \* ClassificationCategory.NORMAL

\* What the LLM sends back:
\*   "error"  llm.invoke raised
\*   "json"   content the parser reads as {category, confidence}
\*   "text"   content that is not such JSON
\* category is the category value the content names (None: it names none),
\* confidence the number it gives.
LLMReplyKinds == {"error", "json", "text"}
RawConfidences == {-5, 0, 55, 100, 101}
LLMReplies ==
    [kind : LLMReplyKinds, category : {None} \cup Categories, confidence : RawConfidences]

\* ClassificationResult: category is a ClassificationCategory and
\* confidence an int with ge=0, le=100; anything else fails validation
\* (variant: confidence declared without its bounds)
ParsesAnyConfidence(reply) ==
    reply.kind = "json" /\ reply.category # None

Parses(reply) ==
    /\ reply.kind = "json"
    /\ reply.category # None
    /\ reply.confidence >= 0
    /\ reply.confidence <= 100

\* ClassificationService.classify_email: the (category, confidence) pair
classify_email(has_llm, reply) ==
    IF ~has_llm THEN [category |-> None, confidence |-> NoConfidence]
    ELSE IF reply.kind = "error" THEN [category |-> None, confidence |-> NoConfidence]
    ELSE IF Parses(reply)
    THEN [category |-> reply.category, confidence |-> reply.confidence]
    ELSE \* the fallback: the first category value found in the content
         [category |-> IF reply.category # None THEN reply.category ELSE NORMAL,
          confidence |-> 80]

(***************************************************************************)
(* services/rule_engine.py: execution                                      *)
(***************************************************************************)
\* the id the drafts sequence hands out next
NextDraftId(tbl) ==
    IF DOMAIN tbl = {} THEN 1
    ELSE (CHOOSE d \in DOMAIN tbl : \A x \in DOMAIN tbl : d >= x) + 1

\* the row crud.create_draft inserts
NewDraft(email_id) == [email_id |-> email_id, is_sent |-> FALSE, provider_draft_id |-> None]

\* the database call of execute_rule_actions that raises, if any
Faults == {None, "classify", "mark_important", "create_draft", "count"}

\* the position, in the order of the try block, of the first statement that
\* raises for this rule; 7 when none does
FaultAt(actions, draft_ok, fault) ==
    IF fault = "classify" /\ actions.type = "classify" /\ actions.category # None
    THEN 1
    ELSE IF fault = "mark_important" /\ actions.mark_important THEN 2
    ELSE IF fault = "create_draft" /\ actions.generate_draft /\ draft_ok THEN 3
    ELSE IF fault = "count" THEN 6
    ELSE 7

\* the dict execute_rule_actions returns
ActionResults(actions, draft_ok, fault) ==
    LET at == FaultAt(actions, draft_ok, fault)
    IN  IF actions = <<>>
        THEN [success |-> FALSE, classified |-> FALSE, marked_important |-> FALSE,
              draft_created |-> FALSE, forward_scheduled |-> FALSE,
              remind_scheduled |-> FALSE]
        ELSE IF at < 7
        THEN \* except Exception: return {"success": False, "message": str(e)}
             [success |-> FALSE, classified |-> FALSE, marked_important |-> FALSE,
              draft_created |-> FALSE, forward_scheduled |-> FALSE,
              remind_scheduled |-> FALSE]
        ELSE [success |-> TRUE,
              classified |-> actions.type = "classify" /\ actions.category # None,
              marked_important |-> actions.mark_important,
              draft_created |-> actions.generate_draft /\ draft_ok,
              forward_scheduled |-> actions.type = "forward" /\ actions.forward_to # None,
              remind_scheduled |-> actions.type = "remind" /\ actions.remind_after_hours # 0]

\* RuleEngine.execute_rule_actions for a rule that matched the email
\* (process_email_with_rules calls it for no other). draft_ok: the draft
\* generation returned a body. Each statement before the one that raises has
\* committed; the one that raises and those after it have no effect.
execute_rule_actions(email_id, rule_id, draft_ok, fault) ==
    /\ email_id \in DOMAIN emails
    /\ rule_id \in DOMAIN rules
    /\ evaluate_rule(emails[email_id], rules[rule_id])
    /\ rules[rule_id].match_count < MaxMatches
    /\ NextDraftId(drafts) <= MaxDrafts
    /\ LET actions == rules[rule_id].actions
           at == IF actions = <<>> THEN 0 ELSE FaultAt(actions, draft_ok, fault)
           classified == 1 < at /\ actions.type = "classify" /\ actions.category # None
           marked == 2 < at /\ actions.mark_important
           drafted == 3 < at /\ actions.generate_draft /\ draft_ok
           counted == 6 < at
       IN  /\ emails' = [emails EXCEPT ![email_id] =
                 [@ EXCEPT !.category = IF classified THEN actions.category ELSE @,
                           !.classification_confidence = IF classified THEN 90 ELSE @,
                           !.is_important = IF marked THEN TRUE ELSE @]]
           /\ drafts' = IF drafted
                        THEN (NextDraftId(drafts) :> NewDraft(email_id)) @@ drafts
                        ELSE drafts
           /\ rules' = IF counted
                       THEN [rules EXCEPT ![rule_id].match_count = @ + 1]
                       ELSE rules
           /\ ret' = Returned("execute_rule_actions", <<email_id, rule_id, draft_ok, fault>>,
                              ActionResults(actions, draft_ok, fault))
    /\ UNCHANGED <<nextId, gmail, vstore, queue, fetch, backend, resp, body, call, sends,
                   logs, deljob, tasks, poll, more>>

(***************************************************************************)
(* utils/oauth_utils.py                                                    *)
(***************************************************************************)
\* timedelta(minutes=5): the margin by which a token is refreshed early
REFRESH_MARGIN == 5

\* is_token_expired(expires_at), with utcnow() = now; times in minutes.
\* expires_at is NoTime for None.
\* (variant: the comparison written with >)
ExpiredStrictlyAfter(expires_at, now) ==
    IF expires_at = NoTime THEN TRUE
    ELSE now > expires_at - REFRESH_MARGIN

is_token_expired(expires_at, now) ==
    IF expires_at = NoTime THEN TRUE
    ELSE now >= expires_at - REFRESH_MARGIN

\* one call of is_token_expired at clock value now
is_token_expired_call(expires_at, now) ==
    /\ ret' = Returned("is_token_expired", <<expires_at, now>>,
                       is_token_expired(expires_at, now))
    /\ UNCHANGED <<emails, nextId, gmail, vstore, queue, fetch, backend, resp, body, call,
                   drafts, sends, rules, logs, deljob, tasks, poll, more>>

(***************************************************************************)
(* Celery result backend and GET /task/{task_id} (routes_email/sync.py)    *)
(***************************************************************************)
\* A dict is a function from its keys. {**a, **b}: the keys of b win.
Merged(a, b) == b @@ a

\* {k: v for k, v in d.items() if k not in keys}
WithoutKeys(d, keys) == [k \in DOMAIN d \ keys |-> d[k]]

\* d.get(key, default)
Get(d, key, default) == IF key \in DOMAIN d THEN d[key] ELSE default

\* the tasks of tasks/email_tasks.py
TaskKinds == {"fetch_emails_from_account", "process_email", "generate_draft",
              "sync_email_status", "check_all_accounts", "delete_email",
              "delete_emails_batch"}
\* the two that report progress, with the interval of their reports
ProgressKinds == {"fetch_emails_from_account", "sync_email_status"}
ReportEvery(kind) == IF kind = "fetch_emails_from_account" THEN 10 ELSE 20

\* meta of the update_state calls of fetch_emails_from_account and
\* sync_email_status (the three counters of each are carried as they are)
ProgressMeta(kind, current, total, percent, status) ==
    IF kind = "fetch_emails_from_account"
    THEN [current |-> current, total |-> total, percent |-> percent,
          new_count |-> current, skipped_count |-> 0, error_count |-> 0,
          status |-> status]
    ELSE [current |-> current, total |-> total, percent |-> percent,
          synced_count |-> current, updated_count |-> 0, deleted_count |-> 0,
          status |-> status]

\* "return {"success": False, "message": ...}"
FailureDict == [success |-> FALSE, message |-> "error"]

\* the dicts a task may return after looping over total items
ReturnValues(kind, total) ==
    {FailureDict} \cup
    CASE kind = "fetch_emails_from_account" ->
            {[success |-> TRUE, total_messages |-> total, new_count |-> total,
              skipped_count |-> 0, error_count |-> 0]}
      [] kind = "sync_email_status" ->
            {[success |-> TRUE, synced_count |-> total, updated_count |-> 0,
              deleted_count |-> 0]}
      [] kind = "process_email" ->
            {[success |-> TRUE],
             [success |-> TRUE, classified |-> TRUE, category |-> "urgent"]}
      [] kind = "generate_draft" -> {[success |-> TRUE, draft_id |-> 1]}
      [] kind = "check_all_accounts" -> {[success |-> TRUE, accounts |-> <<>>]}
      [] kind = "delete_email" ->
            {[success |-> TRUE, email_id |-> 1],
             [success |-> FALSE, message |-> "error", requires_reauth |-> TRUE]}
      [] kind = "delete_emails_batch" ->
            {[success |-> TRUE, total |-> n, submitted |-> n, failed |-> 0,
              failed_ids |-> <<>>, message |-> "submitted"] : n \in 1..MaxBatch}

TaskIds == {1}          \* the id of the task that is submitted
PolledIds == {1, 2}     \* ids a client asks for; 2 was never submitted

\* what the backend holds for an id it knows nothing about
UnknownTask == [kind |-> None, state |-> "PENDING", info |-> <<>>, idx |-> 0, total |-> 0]

\* AsyncResult(task_id)
AsyncResult(task_id) ==
    IF task_id \in DOMAIN tasks THEN tasks[task_id] ELSE UnknownTask

\* .delay / .apply_async: the task is queued
task_send(task_id, kind) ==
    /\ task_id \notin DOMAIN tasks
    /\ tasks' = (task_id :> [UnknownTask EXCEPT !.kind = kind]) @@ tasks
    /\ UNCHANGED <<emails, nextId, gmail, vstore, queue, fetch, backend, resp, body, call,
                   drafts, sends, rules, logs, deljob, poll, ret, more>>

\* a worker picks the task up (task_track_started=True)
task_start(task_id) ==
    /\ task_id \in DOMAIN tasks
    /\ tasks[task_id].state = "PENDING"
    /\ tasks' = [tasks EXCEPT ![task_id].state = "STARTED"]
    /\ UNCHANGED <<emails, nextId, gmail, vstore, queue, fetch, backend, resp, body, call,
                   drafts, sends, rules, logs, deljob, poll, ret, more>>

\* the first update_state(state='PROGRESS') of fetch and sync, before the loop
task_begin(task_id, total) ==
    /\ task_id \in DOMAIN tasks
    /\ tasks[task_id].state = "STARTED"
    /\ tasks[task_id].kind \in ProgressKinds
    /\ tasks' = [tasks EXCEPT ![task_id] =
          [@ EXCEPT !.state = "PROGRESS", !.total = total,
                    !.info = ProgressMeta(tasks[task_id].kind, 0, total, 0, "starting")]]
    /\ UNCHANGED <<emails, nextId, gmail, vstore, queue, fetch, backend, resp, body, call,
                   drafts, sends, rules, logs, deljob, poll, ret, more>>

\* one pass of the loop: "if idx % 10 == 0 or idx == total: update_state(...)"
\* with percent = idx * 100 // total
task_loop(task_id) ==
    /\ task_id \in DOMAIN tasks
    /\ tasks[task_id].state = "PROGRESS"
    /\ tasks[task_id].idx < tasks[task_id].total
    /\ LET t == tasks[task_id]
           idx == t.idx + 1
       IN  tasks' = [tasks EXCEPT ![task_id] =
              [@ EXCEPT !.idx = idx,
                        !.info = IF idx % ReportEvery(t.kind) = 0 \/ idx = t.total
                                 THEN ProgressMeta(t.kind, idx, t.total,
                                                   (idx * 100) \div t.total, "processing")
                                 ELSE @]]
    /\ UNCHANGED <<emails, nextId, gmail, vstore, queue, fetch, backend, resp, body, call,
                   drafts, sends, rules, logs, deljob, poll, ret, more>>

\* after the loop: update_state(state='SUCCESS', meta={..., 'percent': 100, ...})
task_mark_done(task_id) ==
    /\ task_id \in DOMAIN tasks
    /\ tasks[task_id].state = "PROGRESS"
    /\ tasks[task_id].idx = tasks[task_id].total
    /\ LET t == tasks[task_id]
       IN  tasks' = [tasks EXCEPT ![task_id] =
              [@ EXCEPT !.state = "SUCCESS", !.idx = @ + 1,
                        !.info = ProgressMeta(t.kind, t.total, t.total, 100, "done")]]
    /\ UNCHANGED <<emails, nextId, gmail, vstore, queue, fetch, backend, resp, body, call,
                   drafts, sends, rules, logs, deljob, poll, ret, more>>

\* the task function returns: the backend stores SUCCESS with the returned dict.
\* fetch and sync return a failure dict from anywhere in their try block
\* and the success dict after their last update_state.
task_return(task_id, value) ==
    /\ task_id \in DOMAIN tasks
    /\ LET t == tasks[task_id]
       IN  /\ value \in ReturnValues(t.kind, t.total)
           /\ IF t.kind \in ProgressKinds
              THEN \/ t.state \in {"STARTED", "PROGRESS"} /\ value = FailureDict
                   \/ t.state = "SUCCESS" /\ t.idx = t.total + 1 /\ value # FailureDict
              ELSE t.state = "STARTED"
           /\ tasks' = [tasks EXCEPT ![task_id] =
                 [@ EXCEPT !.state = "SUCCESS", !.info = value, !.idx = t.total + 2]]
    /\ UNCHANGED <<emails, nextId, gmail, vstore, queue, fetch, backend, resp, body, call,
                   drafts, sends, rules, logs, deljob, poll, ret, more>>

\* the task ends with an exception no except block of its own catches
\* (the time limit, a lost worker): the backend stores FAILURE
task_raise(task_id) ==
    /\ task_id \in DOMAIN tasks
    /\ tasks[task_id].state \in {"STARTED", "PROGRESS"}
    /\ tasks' = [tasks EXCEPT ![task_id] =
          [@ EXCEPT !.state = "FAILURE", !.info = [exc |-> "TimeLimitExceeded"]]]
    /\ UNCHANGED <<emails, nextId, gmail, vstore, queue, fetch, backend, resp, body, call,
                   drafts, sends, rules, logs, deljob, poll, ret, more>>

\* states in which a task has ended (celery.states.READY_STATES)
READY_STATES == {"SUCCESS", "FAILURE", "REVOKED"}

\* One access of task_result.state / .info / .result: the backend is asked
\* again on every access until an answer shows an ended task, which the
\* AsyncResult object then keeps.
Access(task_id) ==
    IF poll.cache # <<>> THEN poll.cache
    ELSE [state |-> AsyncResult(task_id).state, info |-> AsyncResult(task_id).info]

Kept(snap) == IF snap.state \in READY_STATES THEN snap ELSE <<>>

Shown == {"current", "total", "percent", "status"}

\* the four response dicts of get_task_status
PendingResponse(state) ==
    [state |-> state, current |-> 0, total |-> 0, percent |-> 0, status |-> "waiting"]

ProgressResponse(state, meta) ==
    Merged([state |-> state,
            current |-> Get(meta, "current", 0),
            total |-> Get(meta, "total", 0),
            percent |-> Get(meta, "percent", 0),
            status |-> Get(meta, "status", "processing")],
           WithoutKeys(meta, Shown))

SuccessResponse(state, result, meta) ==
    Merged(Merged([state |-> state,
                   current |-> Get(meta, "current", Get(result, "total", 0)),
                   total |-> Get(meta, "total", Get(result, "total", 0)),
                   percent |-> 100,
                   status |-> "done"],
                  result),
           WithoutKeys(meta, Shown))

OtherResponse(state, info) ==
    [state |-> state, current |-> 0, total |-> 0, percent |-> 0, status |-> "other",
     error |-> IF info # <<>> THEN "error" ELSE None]

\* "except Exception as exc: raise HTTPException(status_code=500, ...)"
ServerError == [status_code |-> 500]

\* the handler returns: response is the body, state what it read last
Responds(task_id, state, response) ==
    /\ ret' = Returned("get_task_status", <<task_id, state>>, response)
    /\ poll' = IdlePoll

\* GET /task/{task_id}: "if task_result.state == 'PENDING'"
get_task_status(task_id) ==
    /\ poll.pc = "idle"
    /\ LET snap == Access(task_id)
       IN  poll' = [poll EXCEPT !.task_id = task_id, !.cache = Kept(snap),
                                !.pc = IF snap.state = "PENDING" THEN "pending"
                                       ELSE "test_progress"]
    /\ UNCHANGED <<emails, nextId, gmail, vstore, queue, fetch, backend, resp, body, call,
                   drafts, sends, rules, logs, deljob, tasks, ret, more>>

\* the PENDING branch: "'state': task_result.state"
status_pending ==
    /\ poll.pc = "pending"
    /\ Responds(poll.task_id, Access(poll.task_id).state,
                PendingResponse(Access(poll.task_id).state))
    /\ UNCHANGED <<emails, nextId, gmail, vstore, queue, fetch, backend, resp, body, call,
                   drafts, sends, rules, logs, deljob, tasks, more>>

\* "elif task_result.state == 'PROGRESS'"
status_test_progress ==
    /\ poll.pc = "test_progress"
    /\ LET snap == Access(poll.task_id)
       IN  poll' = [poll EXCEPT !.cache = Kept(snap),
                                !.pc = IF snap.state = "PROGRESS" THEN "progress_info"
                                       ELSE "test_success"]
    /\ UNCHANGED <<emails, nextId, gmail, vstore, queue, fetch, backend, resp, body, call,
                   drafts, sends, rules, logs, deljob, tasks, ret, more>>

\* the PROGRESS branch: "meta = task_result.info or {}"
status_progress_info ==
    /\ poll.pc = "progress_info"
    /\ LET snap == Access(poll.task_id)
       IN  poll' = [poll EXCEPT !.cache = Kept(snap), !.meta = snap.info,
                                !.pc = "progress_state"]
    /\ UNCHANGED <<emails, nextId, gmail, vstore, queue, fetch, backend, resp, body, call,
                   drafts, sends, rules, logs, deljob, tasks, ret, more>>

\* the PROGRESS branch: "'state': task_result.state" and the meta.get calls,
\* which raise when info is the exception of a failed task
status_progress_state ==
    /\ poll.pc = "progress_state"
    /\ LET snap == Access(poll.task_id)
       IN  IF "exc" \in DOMAIN poll.meta
           THEN Responds(poll.task_id, snap.state, ServerError)
           ELSE Responds(poll.task_id, snap.state, ProgressResponse(snap.state, poll.meta))
    /\ UNCHANGED <<emails, nextId, gmail, vstore, queue, fetch, backend, resp, body, call,
                   drafts, sends, rules, logs, deljob, tasks, more>>

\* "elif task_result.state == 'SUCCESS'": the answer is kept, so result, info
\* and state of the SUCCESS branch are those of this one answer
status_test_success ==
    /\ poll.pc = "test_success"
    /\ LET snap == Access(poll.task_id)
       IN  IF snap.state = "SUCCESS"
           THEN /\ Responds(poll.task_id, snap.state,
                            SuccessResponse(snap.state, snap.info, snap.info))
                /\ UNCHANGED tasks
           ELSE /\ poll' = [poll EXCEPT !.cache = Kept(snap), !.pc = "other_state"]
                /\ UNCHANGED <<tasks, ret>>
    /\ UNCHANGED <<emails, nextId, gmail, vstore, queue, fetch, backend, resp, body, call,
                   drafts, sends, rules, logs, deljob, more>>

\* the else branch: "'state': task_result.state"
status_other_state ==
    /\ poll.pc = "other_state"
    /\ LET snap == Access(poll.task_id)
       IN  poll' = [poll EXCEPT !.cache = Kept(snap), !.state = snap.state,
                                !.pc = "other_info"]
    /\ UNCHANGED <<emails, nextId, gmail, vstore, queue, fetch, backend, resp, body, call,
                   drafts, sends, rules, logs, deljob, tasks, ret, more>>

\* the else branch: "'error': str(task_result.info) if task_result.info else None"
status_other_info ==
    /\ poll.pc = "other_info"
    /\ Responds(poll.task_id, poll.state,
                OtherResponse(poll.state, Access(poll.task_id).info))
    /\ UNCHANGED <<emails, nextId, gmail, vstore, queue, fetch, backend, resp, body, call,
                   drafts, sends, rules, logs, deljob, tasks, more>>

(***************************************************************************)
(* db/crud.py: update_email with its vector-store refresh                  *)
(***************************************************************************)
\* the names the import statements of db/crud.py bind
CrudGlobals == {"Session", "desc", "and_", "or_", "List", "Optional", "datetime",
                "models", "schemas"}

\* evaluating a global name of the module: NameError when nothing binds it
NameError(name) == name \notin CrudGlobals

vector_content_fields == {"subject", "body_text", "body_html", "sender", "sender_email"}

\* what VectorStoreService.update_email does to the collection: the document
\* is replaced, or deleted and not added again (no Document can be built), or
\* nothing happens (store not initialised, or the delete fails)
VectorOutcomes == {"replaced", "deleted", "nothing"}

\* crud.update_email(db, email_id, **kwargs). vector_raises: the body of
\* the try block raises before it reaches log.debug
update_email_call(email_id, kwargs, outcome, vector_raises) ==
    LET needs_vector_update == DOMAIN kwargs \cap vector_content_fields # {}
        \* the try block ends in log.debug, the except block in log.warning
        raised == needs_vector_update /\ NameError("log")
    IN  /\ IF get_email(emails, email_id) = NoRow
           THEN /\ ret' = Returned("update_email", <<email_id, kwargs>>,
                                   [found |-> FALSE, vector_call |-> FALSE, raised |-> FALSE])
                /\ UNCHANGED <<emails, vstore>>
           ELSE /\ emails' = [emails EXCEPT ![email_id] = kwargs @@ @]
                /\ vstore' = IF ~needs_vector_update \/ vector_raises \/ outcome = "nothing"
                             THEN vstore
                             ELSE IF outcome = "deleted" THEN vstore \ {email_id}
                             ELSE vstore \cup {email_id}
                /\ ret' = Returned("update_email", <<email_id, kwargs>>,
                                   [found |-> TRUE, vector_call |-> needs_vector_update,
                                    raised |-> raised])
        /\ UNCHANGED <<nextId, gmail, queue, fetch, backend, resp, body, call, drafts,
                       sends, rules, logs, deljob, tasks, poll, more>>

(***************************************************************************)
(* services/rule_engine.py: process_email_with_rules, statement by         *)
(* statement, one invocation per worker                                    *)
(***************************************************************************)
\* order_by(desc(Rule.priority), desc(Rule.created_at)): whether rule r is
\* listed before rule q; rules are created in the order of their ids
\* (variant: ascending priority)
ListedBeforeAscending(tbl, r, q) ==
    \/ tbl[r].priority < tbl[q].priority
    \/ tbl[r].priority = tbl[q].priority /\ r > q

ListedBefore(tbl, r, q) ==
    \/ tbl[r].priority > tbl[q].priority
    \/ tbl[r].priority = tbl[q].priority /\ r > q

RECURSIVE Ordered(_, _)
Ordered(tbl, ids) ==
    IF ids = {} THEN <<>>
    ELSE LET first == CHOOSE r \in ids : \A q \in ids \ {r} : ListedBefore(tbl, r, q)
         IN  <<first>> \o Ordered(tbl, ids \ {first})

\* crud.get_rules(db, is_active=True): the ids of the rows, in query order
get_rules(tbl, is_active) ==
    Ordered(tbl, {r \in DOMAIN tbl : tbl[r].is_active = is_active})

\* datetime.utcnow() at a stamp: not before any stamp already stored
Now(tbl) == {t \in Times : \A r \in DOMAIN tbl : tbl[r].last_matched_at <= t}

\* "if actions.get("type") == RuleAction.CLASSIFY and actions.get("category")"
Classifies(actions) ==
    actions # <<>> /\ actions.type = "classify" /\ actions.category # None

\* "rules = crud.get_rules(db, is_active=True)"
process_email_with_rules(w, email_id) ==
    /\ passes[w].pc = "idle"
    /\ passes[w].runs < MaxPasses
    /\ email_id \in DOMAIN emails
    /\ passes' = [passes EXCEPT ![w] =
          [@ EXCEPT !.pc = "loop", !.email_id = email_id, !.results = <<>>,
                    !.todo = get_rules(rules, TRUE), !.runs = @ + 1]]
    /\ UNCHANGED <<emails, nextId, gmail, vstore, queue, fetch, backend, resp, body, call,
                   drafts, sends, rules, logs, deljob, tasks, poll, ret,
                   others>>

\* one turn of "for rule in rules": evaluate_rule and, for a match, the try
\* block of execute_rule_actions up to crud.increment_rule_match_count,
\* whose get_rule reads the row
pass_rule(w, draft_ok, fault) ==
    /\ passes[w].pc = "loop"
    /\ passes[w].todo # <<>>
    /\ NextDraftId(drafts) <= MaxDrafts
    /\ LET r == Head(passes[w].todo)
           e == passes[w].email_id
           actions == rules[r].actions
           at == IF actions = <<>> THEN 0 ELSE FaultAt(actions, draft_ok, fault)
           classified == 1 < at /\ actions.type = "classify" /\ actions.category # None
           marked == 2 < at /\ actions.mark_important
           drafted == 3 < at /\ actions.generate_draft /\ draft_ok
       IN  IF ~evaluate_rule(emails[e], rules[r])
           THEN /\ passes' = [passes EXCEPT ![w].todo = Tail(@)]
                /\ UNCHANGED <<emails, drafts>>
           ELSE /\ emails' = [emails EXCEPT ![e] =
                      [@ EXCEPT !.category = IF classified THEN actions.category ELSE @,
                                !.classification_confidence = IF classified THEN 90 ELSE @,
                                !.is_important = IF marked THEN TRUE ELSE @]]
                /\ drafts' = IF drafted
                             THEN (NextDraftId(drafts) :> NewDraft(e)) @@ drafts
                             ELSE drafts
                /\ IF at = 7
                   THEN passes' = [passes EXCEPT ![w].pc = "count",
                                                 ![w].read = rules[r].match_count]
                   ELSE passes' = [passes EXCEPT
                           ![w].todo = Tail(@),
                           ![w].results = Append(@, [rule_id |-> r, success |-> FALSE,
                                                     classified |-> classified])]
    /\ UNCHANGED <<nextId, gmail, vstore, queue, fetch, backend, resp, body, call,
                   sends, rules, logs, deljob, tasks, poll, ret, others>>

\* "rule.match_count += 1; rule.last_matched_at = datetime.utcnow();
\*  db.commit()": the UPDATE writes the value computed from the row as read
pass_count(w, t) ==
    /\ passes[w].pc = "count"
    /\ t \in Now(rules)
    /\ LET r == Head(passes[w].todo)
       IN  /\ rules' = [rules EXCEPT ![r].match_count = passes[w].read + 1,
                                     ![r].last_matched_at = t]
           /\ passes' = [passes EXCEPT
                 ![w].pc = "loop",
                 ![w].todo = Tail(@),
                 ![w].results = Append(@, [rule_id |-> r, success |-> TRUE,
                                           classified |-> Classifies(rules[r].actions)]),
                 ![w].succeeded = @ (+) SetToBag({r})]
    /\ UNCHANGED <<emails, nextId, gmail, vstore, queue, fetch, backend, resp, body, call,
                   drafts, sends, logs, deljob, tasks, poll, ret,
                   others>>

\* "return results"
pass_return(w) ==
    /\ passes[w].pc = "loop"
    /\ passes[w].todo = <<>>
    /\ passes' = [passes EXCEPT ![w].pc = "idle"]
    /\ ret' = Returned("process_email_with_rules", <<w, passes[w].email_id>>,
                       passes[w].results)
    /\ UNCHANGED <<emails, nextId, gmail, vstore, queue, fetch, backend, resp, body, call,
                   drafts, sends, rules, logs, deljob, tasks, poll,
                   others>>

(***************************************************************************)
(* tasks/email_tasks.py: the generate_draft task, statement by statement,  *)
(* and the drafts.email_id foreign key                                     *)
(***************************************************************************)
\* a drafts table without the constraint on email_id
NoForeignKey(tbl, email_id) == TRUE
\* db/models.py: email_id = Column(Integer, ForeignKey("emails.id")): the
\* database accepts a drafts row only while the emails row it names exists
ForeignKey(tbl, email_id) == email_id \in DOMAIN tbl

\* what generate_draft returns
DraftSuccess(draft_id) == [success |-> TRUE, draft_id |-> draft_id, message |-> None]
DraftFailure(message) == [success |-> FALSE, draft_id |-> 0, message |-> message]

\* how service.create_draft ends: with the provider's draft id, with None
\* (no service and no refresh, or an HttpError), or with an exception that
\* is not an HttpError (transport error, RefreshError, header TypeError)
ProviderOutcomes == {"id", "none", "raised"}

\* the row the job inserted is still in the table (rows of a deleted email
\* go with it; no later row can name that email)
Persisted(tbl, job) ==
    /\ job.draft_id \in DOMAIN tbl
    /\ tbl[job.draft_id].email_id = job.email_id

\* "email = crud.get_email(db, email_id); if not email: return ..."
generate_draft_start(email_id) ==
    /\ genjob.pc \in {"idle", "done"}
    /\ genjob' = IF email_id \in DOMAIN emails
                 THEN [IdleGen EXCEPT !.pc = "llm", !.email_id = email_id]
                 ELSE [IdleGen EXCEPT !.pc = "done", !.email_id = email_id,
                                      !.result = DraftFailure("no_email")]
    /\ UNCHANGED <<emails, nextId, gmail, vstore, queue, fetch, backend, resp, body, call,
                   drafts, sends, rules, logs, deljob, tasks, poll, passes, users, accounts,
                   conn, dbtask, labels, progress, ret>>

\* "draft_body = classification_service.generate_draft(...)": an empty body
\* or an exception of the LLM call ends the job before anything is stored
generate_draft_body(draft_ok) ==
    /\ genjob.pc = "llm"
    /\ genjob' = IF draft_ok
                 THEN [genjob EXCEPT !.pc = "insert"]
                 ELSE [genjob EXCEPT !.pc = "done", !.result = DraftFailure("no_body")]
    /\ UNCHANGED <<emails, nextId, gmail, vstore, queue, fetch, backend, resp, body, call,
                   drafts, sends, rules, logs, deljob, tasks, poll, passes, users, accounts,
                   conn, dbtask, labels, progress, ret>>

\* "draft = crud.create_draft(db, DraftCreate(email_id=email_id, ...))": the
\* commit raises IntegrityError when the email row is gone by now
generate_draft_insert ==
    /\ genjob.pc = "insert"
    /\ IF ForeignKey(emails, genjob.email_id)
       THEN /\ NextDraftId(drafts) \in DraftIds
            /\ drafts' = (NextDraftId(drafts) :> NewDraft(genjob.email_id)) @@ drafts
            /\ genjob' = [genjob EXCEPT !.pc = "provider", !.draft_id = NextDraftId(drafts)]
       ELSE /\ genjob' = [genjob EXCEPT !.pc = "done",
                                        !.result = DraftFailure("IntegrityError")]
            /\ drafts' = drafts
    /\ UNCHANGED <<emails, nextId, gmail, vstore, queue, fetch, backend, resp, body, call,
                   sends, rules, logs, deljob, tasks, poll, passes, users, accounts,
                   conn, dbtask, labels, progress, ret>>

\* "draft_id = service.create_draft(...); if draft_id: draft.provider_draft_id
\* = draft_id; db.commit()" and the return. An exception of the provider call
\* leaves the try block for "except Exception", which returns success False;
\* the UPDATE of a row that went with its email raises StaleDataError.
generate_draft_provider(outcome) ==
    /\ genjob.pc = "provider"
    /\ IF outcome = "raised"
       THEN /\ genjob' = [genjob EXCEPT !.pc = "done", !.outcome = outcome,
                                        !.result = DraftFailure("provider_exception")]
            /\ drafts' = drafts
       ELSE IF outcome = "none"
       THEN /\ genjob' = [genjob EXCEPT !.pc = "done", !.outcome = outcome,
                                        !.result = DraftSuccess(genjob.draft_id)]
            /\ drafts' = drafts
       ELSE IF Persisted(drafts, genjob)
       THEN /\ drafts' = [drafts EXCEPT ![genjob.draft_id].provider_draft_id = "gmail_draft"]
            /\ genjob' = [genjob EXCEPT !.pc = "done", !.outcome = outcome,
                                        !.result = DraftSuccess(genjob.draft_id)]
       ELSE /\ genjob' = [genjob EXCEPT !.pc = "done", !.outcome = outcome,
                                        !.result = DraftFailure("StaleDataError")]
            /\ drafts' = drafts
    /\ UNCHANGED <<emails, nextId, gmail, vstore, queue, fetch, backend, resp, body, call,
                   sends, rules, logs, deljob, tasks, poll, passes, users, accounts,
                   conn, dbtask, labels, progress, ret>>

\* crud.create_draft as the rule action, the draft-with-context endpoint and
\* the agent tool call it, for an email id they looked up earlier
create_draft(email_id) ==
    /\ NextDraftId(drafts) \in DraftIds
    /\ IF ForeignKey(emails, email_id)
       THEN /\ drafts' = (NextDraftId(drafts) :> NewDraft(email_id)) @@ drafts
            /\ ret' = Returned("create_draft", <<email_id>>, [raised |-> FALSE])
       ELSE /\ drafts' = drafts
            /\ ret' = Returned("create_draft", <<email_id>>, [raised |-> TRUE])
    /\ UNCHANGED <<emails, nextId, gmail, vstore, queue, fetch, backend, resp, body, call,
                   sends, rules, logs, deljob, tasks, poll, more>>

(***************************************************************************)
(* routes_email/emails.py: GET /list with sync_deleted set                 *)
(***************************************************************************)
\* the names the class GmailService binds
GmailServiceAttrs ==
    Methods \cup {"_build_service", "_get_credentials", "refresh_token", "mark_as_read",
                  "mark_as_important", "exchange_code_for_token"}

SyncStatusJob(account_id) == [task |-> "sync_email_status", arg |-> <<account_id>>]

\* the loop "for email in emails" of get_emails: the ids it appends to
\* removed_ids. "service.check_message_exists(...)" stands inside a try whose
\* "except Exception" goes on with the next email; looking up a name the
\* class does not bind raises AttributeError.
RECURSIVE RemovedIds(_, _, _)
RemovedIds(tbl, items, mailbox) ==
    IF items = <<>> THEN <<>>
    ELSE LET email_id == Head(items)
             raises == "check_message_exists" \notin GmailServiceAttrs
             exists == tbl[email_id].provider_message_id \in mailbox
         IN  (IF ~raises /\ ~exists THEN <<email_id>> ELSE <<>>)
                \o RemovedIds(tbl, Tail(items), mailbox)

\* GET /list?sync_deleted=true for the connected Gmail account: one
\* sync_email_status job per active account, the page, the check of every
\* email of the page, _trigger_deleted_cleanup and the second query
get_emails_sync_deleted(status, category, limit, offset, broker_ok) ==
    /\ BagCardinality(queue) < MaxQueue
    /\ LET queued == IF broker_ok THEN Enqueue(queue, SyncStatusJob(1)) ELSE queue
       IN  IF status \notin EmailStatus \cup {None}
           THEN /\ resp' = Response("get_emails_sync_deleted", <<limit, offset>>, 400)
                /\ body' = [items |-> <<>>, total |-> 0, status |-> status,
                            category |-> category, deleted_ids |-> <<>>]
                /\ ret' = Returned("get_emails", <<limit, offset>>, [page |-> <<>>])
                /\ queue' = queued
                /\ emails' = emails
           ELSE \E page \in get_emails(emails, status, category, limit, offset, TRUE) :
                   LET removed_ids == RemovedIds(emails, page.items, gmail)
                       tbl == MarkAllDeleted(emails, removed_ids)
                   IN  /\ emails' = tbl
                       /\ queue' = IF broker_ok THEN SubmitAll(queued, removed_ids)
                                   ELSE queued
                       /\ \E again \in (IF removed_ids = <<>> THEN {page}
                                        ELSE get_emails(tbl, status, category, limit,
                                                        offset, TRUE)) :
                             body' = [items |-> again.items, total |-> again.total,
                                      status |-> status, category |-> category,
                                      deleted_ids |-> removed_ids]
                       /\ resp' = Response("get_emails_sync_deleted", <<limit, offset>>, 200)
                       /\ ret' = Returned("get_emails", <<limit, offset>>,
                                          [page |-> page.items])
    /\ UNCHANGED <<nextId, gmail, vstore, fetch, backend, call, drafts, sends,
                   rules, logs, deljob, tasks, poll, more>>

(***************************************************************************)
(* routes_email/auth.py: gmail_callback and connect_email, statement by    *)
(* statement, one request at a time per server process                     *)
(***************************************************************************)
\* the two endpoints; from the token exchange on their bodies are the same
ConnectEndpoints == {"gmail_callback", "connect_email"}
\* the addresses Google reports for an authorization code, and access tokens
Addresses == {"a@example.com", "b@example.com"}
Tokens == {1, 2}
GMAIL == "gmail"

\* crud.get_user_by_email: ids of the users with that email
get_user_by_email(tbl, email) == {u \in DOMAIN tbl : tbl[u].email = email}

\* users.email is declared unique=True: the INSERT of a second row fails
UserUniqueViolation(tbl, email) == get_user_by_email(tbl, email) # {}

\* "for acc in existing_accounts: if acc.email == user_email and acc.provider
\* == provider": ids of the matching accounts of the user
MatchingAccounts(tbl, user_id, email, provider) ==
    {a \in DOMAIN tbl : /\ tbl[a].user_id = user_id
                        /\ tbl[a].email = email
                        /\ tbl[a].provider = provider}

FetchJob(account_id) == [task |-> "fetch_emails_from_account", arg |-> <<account_id>>]

\* what every step of a request leaves alone
connKeeps == <<emails, nextId, gmail, vstore, fetch, backend, resp, body, call, drafts,
               sends, rules, logs, deljob, tasks, poll, passes, genjob, dbtask, labels,
               progress>>

\* "token_data = exchange_code_for_token(code)" and
\* "user = crud.get_user_by_email(db, user_email)"
connect_lookup_user(w, via, address, token) ==
    /\ conn[w].pc = "idle"
    /\ conn[w].runs < MaxConnects
    /\ LET found == get_user_by_email(users, address)
       IN  conn' = [conn EXCEPT ![w] =
              [pc |-> IF found = {} THEN "create_user" ELSE "accounts",
               via |-> via, address |-> address, token |-> token,
               user_id |-> IF found = {} THEN 0 ELSE CHOOSE u \in found : TRUE,
               account_id |-> 0, runs |-> @.runs + 1]]
    /\ UNCHANGED <<users, accounts, queue, ret, connKeeps>>

\* "user = crud.create_user(db, UserCreate(email=user_email))": the commit
\* raises IntegrityError when another request inserted the user meanwhile,
\* and the request is answered 500
connect_create_user(w) ==
    /\ conn[w].pc = "create_user"
    /\ IF UserUniqueViolation(users, conn[w].address)
       THEN /\ conn' = [conn EXCEPT ![w].pc = "idle"]
            /\ ret' = Returned(conn[w].via, <<w, conn[w].address>>,
                               [code |-> 500, account_id |-> 0])
            /\ users' = users
       ELSE /\ users' = Append(users, [email |-> conn[w].address])
            /\ conn' = [conn EXCEPT ![w].pc = "accounts", ![w].user_id = Len(users) + 1]
            /\ ret' = ret
    /\ UNCHANGED <<accounts, queue, connKeeps>>

\* "existing_accounts = crud.get_email_accounts_by_user(db, user.id)" and the
\* loop that picks the account
connect_find_account(w) ==
    /\ conn[w].pc = "accounts"
    /\ LET found == MatchingAccounts(accounts, conn[w].user_id, conn[w].address, GMAIL)
       IN  conn' = IF found = {}
                   THEN [conn EXCEPT ![w].pc = "create_account"]
                   ELSE [conn EXCEPT ![w].pc = "update_token",
                                     ![w].account_id =
                                        CHOOSE a \in found : \A b \in found : a <= b]
    /\ UNCHANGED <<users, accounts, queue, ret, connKeeps>>

\* "crud.update_email_account_token(...)", "fetch_emails_from_account.delay"
\* and the answer
connect_update_token(w) ==
    /\ conn[w].pc = "update_token"
    /\ accounts' = [accounts EXCEPT ![conn[w].account_id].access_token = conn[w].token]
    /\ queue' = Enqueue(queue, FetchJob(conn[w].account_id))
    /\ conn' = [conn EXCEPT ![w].pc = "idle"]
    /\ ret' = Returned(conn[w].via, <<w, conn[w].address>>,
                       [code |-> 200, account_id |-> conn[w].account_id])
    /\ UNCHANGED <<users, connKeeps>>

\* "account = crud.create_email_account(...)": email_accounts has no unique
\* constraint, the INSERT always commits
connect_create_account(w) ==
    /\ conn[w].pc = "create_account"
    /\ accounts' = Append(accounts, [user_id |-> conn[w].user_id, provider |-> GMAIL,
                                     email |-> conn[w].address,
                                     access_token |-> conn[w].token])
    /\ queue' = Enqueue(queue, FetchJob(Len(accounts) + 1))
    /\ conn' = [conn EXCEPT ![w].pc = "idle", ![w].account_id = Len(accounts) + 1]
    /\ ret' = Returned(conn[w].via, <<w, conn[w].address>>,
                       [code |-> 200, account_id |-> Len(accounts) + 1])
    /\ UNCHANGED <<users, connKeeps>>

\* the steps of the request server process w serves
ConnectSteps(w) ==
    \/ \E via \in ConnectEndpoints, address \in Addresses, token \in Tokens :
          connect_lookup_user(w, via, address, token)
    \/ connect_create_user(w)
    \/ connect_find_account(w)
    \/ connect_update_token(w)
    \/ connect_create_account(w)

(***************************************************************************)
(* tasks/email_tasks.py: DatabaseTask. A prefork worker process runs one   *)
(* invocation at a time on its own task instance; Celery calls             *)
(* after_return when the body has returned or raised.                      *)
(***************************************************************************)
\* how the body of a task ends
TaskEndings == {"success", "failure_dict", "raised"}

\* an after_return that closes the session and keeps the reference
ClosesOnly(inst, how) == [inst EXCEPT !.pc = "idle", !.how = how]
\* "if self._db is not None: self._db.close(); self._db = None"
after_return(inst, how) == [inst EXCEPT !.pc = "idle", !.how = how, !.db = 0]

\* what every step of a task invocation leaves alone
taskKeeps == <<emails, nextId, gmail, vstore, queue, fetch, backend, resp, body, call,
               drafts, sends, rules, logs, deljob, tasks, poll, passes, genjob, users,
               accounts, conn, labels, progress, ret>>

\* the worker process takes a job and calls the task
task_call(w) ==
    /\ dbtask.procs[w].pc = "idle"
    /\ dbtask' = [dbtask EXCEPT !.procs[w] = [@ EXCEPT !.pc = "running", !.used = {}]]
    /\ UNCHANGED taskKeeps

\* the property db: "if self._db is None: self._db = SessionLocal()" and
\* "return self._db"; the body then works with the session it got
task_db(w) ==
    /\ dbtask.procs[w].pc = "running"
    /\ IF dbtask.procs[w].db = 0
       THEN /\ Len(dbtask.sessions) < MaxSessions
            /\ dbtask' = [dbtask EXCEPT
                  !.sessions = Append(@, "open"),
                  !.procs[w] = [@ EXCEPT !.db = Len(dbtask.sessions) + 1,
                                         !.used = @ \cup {Len(dbtask.sessions) + 1}]]
       ELSE dbtask' = [dbtask EXCEPT !.procs[w].used = @ \cup {dbtask.procs[w].db}]
    /\ UNCHANGED taskKeeps

\* the body returns its dict or raises, and Celery calls after_return
task_after_return(w, how) ==
    /\ dbtask.procs[w].pc = "running"
    /\ dbtask' = [dbtask EXCEPT
          !.sessions = IF dbtask.procs[w].db = 0 THEN @
                       ELSE [@ EXCEPT ![dbtask.procs[w].db] = "closed"],
          !.procs[w] = after_return(@, how)]
    /\ UNCHANGED taskKeeps

(***************************************************************************)
(* tasks/email_tasks.py: the counters and the update_state payloads of     *)
(* fetch_emails_from_account, message by message                           *)
(***************************************************************************)
\* how the turn of the loop for one message ends: the row exists (continue),
\* get_message answers None or raises (continue), the row is created, or
\* crud.create_email raises and the outer except ends the task
MessageOutcomes == {"existing", "no_detail", "created", "raised"}

\* a percentage that counts the messages still to come
PercentRemaining(idx, total_messages) == ((total_messages - idx) * 100) \div total_messages
\* "percent = idx * 100 // total_messages"
Percent(idx, total_messages) == (idx * 100) \div total_messages

\* "if idx % 10 == 0 or idx == total_messages"
Reports(idx, total_messages) ==
    idx % ReportEvery("fetch_emails_from_account") = 0 \/ idx = total_messages

\* the meta of an update_state call
FetchMeta(p, current, percent) ==
    [current |-> current, total |-> p.total, percent |-> percent,
     new_count |-> p.new_count, skipped_count |-> p.skipped_count,
     error_count |-> p.error_count]

\* what every step of the counted loop leaves alone
progressKeeps == <<emails, nextId, gmail, vstore, queue, fetch, backend, resp, body, call,
                   drafts, sends, rules, logs, deljob, tasks, poll, passes, genjob, users,
                   accounts, conn, dbtask, labels, ret>>

\* "messages = service.get_messages(fetch_all=True)", the counters and the
\* first update_state
fetch_listed(total_messages) ==
    /\ progress.pc \in {"idle", "done"}
    /\ progress' = [IdleProgress EXCEPT
          !.pc = "loop", !.total = total_messages, !.idx = 1,
          !.published = <<FetchMeta([IdleProgress EXCEPT !.total = total_messages], 0, 0)>>]
    /\ UNCHANGED progressKeeps

\* one turn of "for idx, msg in enumerate(messages, 1)"
fetch_message(outcome) ==
    /\ progress.pc = "loop"
    /\ progress.idx <= progress.total
    /\ LET idx == progress.idx
           reported == IF Reports(idx, progress.total)
                       THEN Append(progress.published,
                                   FetchMeta(progress, idx, Percent(idx, progress.total)))
                       ELSE progress.published
       IN  progress' =
              CASE outcome = "existing" ->
                     [progress EXCEPT !.published = reported, !.idx = idx + 1,
                                      !.skipped_count = @ + 1]
                [] outcome = "no_detail" ->
                     [progress EXCEPT !.published = reported, !.idx = idx + 1,
                                      !.error_count = @ + 1]
                [] outcome = "created" ->
                     [progress EXCEPT !.published = reported, !.idx = idx + 1,
                                      !.new_count = @ + 1]
                [] outcome = "raised" ->
                     [progress EXCEPT !.published = reported, !.pc = "done",
                                      !.result = FetchFailure("integrity_error")]
    /\ UNCHANGED progressKeeps

\* after the loop: update_state(state='SUCCESS', ...) and the success dict
fetch_counted ==
    /\ progress.pc = "loop"
    /\ progress.idx > progress.total
    /\ progress' = [progress EXCEPT
          !.pc = "done",
          !.published = Append(@, FetchMeta(progress, progress.total, 100)),
          !.result = [success |-> TRUE, message |-> None,
                      total_messages |-> progress.total,
                      new_count |-> progress.new_count,
                      skipped_count |-> progress.skipped_count,
                      error_count |-> progress.error_count]]
    /\ UNCHANGED progressKeeps

(***************************************************************************)
(* Spec: the email life cycle. One worker fetches; the handlers and the    *)
(* delete / process / sync tasks interleave with it message by message.    *)
(***************************************************************************)
Init ==
    /\ emails = <<>>
    /\ nextId = 1
    /\ gmail = MsgIds
    /\ vstore = {}
    /\ queue = EmptyBag
    /\ fetch = [w \in Workers |-> IdleFetch]
    /\ backend = [w \in Workers |-> NoFetchYet]
    /\ resp = NoResp
    /\ body = NoBody
    /\ call = IdleCall
    /\ drafts = <<>>
    /\ sends = 0
    /\ rules = <<>>
    /\ logs = <<>>
    /\ deljob = IdleJob
    /\ poll = IdlePoll
    /\ passes = IdlePasses
    /\ QuietOthers
    /\ tasks = <<>>
    /\ ret = NoRet

Next ==
    \/ fetch_emails_from_account(1)
    \/ \E e \in RequestIds, broker_ok \in BOOLEAN : delete_email(e, broker_ok)
    \/ \E e \in RequestIds, modify_ok \in BOOLEAN : mark_as_read(e, modify_ok)
    \/ \E e \in RequestIds : mark_as_unread(e)
    \/ \E e \in RequestIds, outcome \in DeleteOutcomes, vector_ok \in BOOLEAN :
          delete_email_task(e, outcome, vector_ok)
    \/ \E account_id \in AccountIds : sync_email_status(account_id)

Spec == Init /\ [][Next]_vars

(***************************************************************************)
(* SpecClassify: the flag and the classification of a row, next to fetch   *)
(* and soft delete.                                                        *)
(***************************************************************************)
NextClassify ==
    \/ fetch_emails_from_account(1)
    \/ \E e \in RequestIds, broker_ok \in BOOLEAN : delete_email(e, broker_ok)
    \/ \E e \in RequestIds, modify_ok \in BOOLEAN : mark_as_important(e, modify_ok)
    \/ \E e \in RequestIds, force \in BOOLEAN, answer \in LLMAnswers :
          process_email(e, force, answer)

SpecClassify == Init /\ [][NextClassify]_vars

(***************************************************************************)
(* SpecBatch: batch delete, with the fetch that creates the rows and the   *)
(* tasks the batch fans out to.                                            *)
(***************************************************************************)
NextBatch ==
    \/ fetch_emails_from_account(1)
    \/ \E ids \in BatchRequests, broker_ok \in BOOLEAN : batch_delete_emails(ids, broker_ok)
    \/ \E ids \in BatchRequests : delete_emails_batch(ids)
    \/ \E e \in RequestIds, outcome \in DeleteOutcomes, vector_ok \in BOOLEAN :
          delete_email_task(e, outcome, vector_ok)

SpecBatch == Init /\ [][NextBatch]_vars

(***************************************************************************)
(* SpecFetchTwice: one worker runs fetch_emails_from_account again and     *)
(* again; nothing else touches the mailbox or the table.                   *)
(***************************************************************************)
NextFetchTwice == fetch_emails_from_account(1)

SpecFetchTwice == Init /\ [][NextFetchTwice]_vars

(***************************************************************************)
(* SpecFetch: the workers run fetch_emails_from_account concurrently.      *)
(***************************************************************************)
NextFetch == \E w \in Workers : fetch_emails_from_account(w)

SpecFetch == Init /\ [][NextFetch]_vars

(***************************************************************************)
(* SpecGmail: calls of GmailService methods against a provider that may    *)
(* answer any status to any request.                                       *)
(***************************************************************************)
NextGmail ==
    \/ \E method \in Methods, has_service \in BOOLEAN, refresh_ok \in BOOLEAN :
          gmail_call(method, has_service, refresh_ok)
    \/ \E status \in HttpStatuses : gmail_execute(status)
    \/ \E refresh_ok \in BOOLEAN : gmail_handle_401(refresh_ok)

SpecGmail == Init /\ [][NextGmail]_vars

(***************************************************************************)
(* SpecList: crud.get_emails over any stored table.                        *)
(***************************************************************************)
StoredIds == 1..MaxStored

\* a stored row: provider_message_id is unique, status and category are free
StoredEmail(e, x) ==
    [provider_message_id |-> e, status |-> x.status, is_important |-> FALSE,
     category |-> x.category, classification_confidence |-> NoConfidence,
     received_at |-> ReceivedAt(e)]

EmailTables ==
    UNION {{[e \in D |-> StoredEmail(e, f[e])] :
              f \in [D -> [status : EmailStatus, category : {None} \cup Categories]]} :
           D \in SUBSET StoredIds}

InitList ==
    /\ emails \in EmailTables
    /\ nextId = MaxStored + 1
    /\ gmail = {}
    /\ vstore = {}
    /\ queue = EmptyBag
    /\ fetch = [w \in Workers |-> IdleFetch]
    /\ backend = [w \in Workers |-> NoFetchYet]
    /\ resp = NoResp
    /\ body = NoBody
    /\ call = IdleCall
    /\ drafts = <<>>
    /\ sends = 0
    /\ rules = <<>>
    /\ logs = <<>>
    /\ deljob = IdleJob
    /\ poll = IdlePoll
    /\ passes = IdlePasses
    /\ QuietOthers
    /\ tasks = <<>>
    /\ ret = NoRet

NextList ==
    \E status \in StatusParams, category \in {None} \cup Categories,
       limit \in 1..MaxLimit, offset \in 0..MaxOffset :
          get_emails_endpoint(status, category, limit, offset)

SpecList == InitList /\ [][NextList]_vars

(***************************************************************************)
(* SpecDraft: send and delete requests over any stored drafts table.       *)
(***************************************************************************)
\* stored drafts: of email 1, which has a row, or of email 2, whose row is gone
DraftTables ==
    UNION {[D -> [email_id : {1, 2}, is_sent : BOOLEAN, provider_draft_id : {None}]] : D \in SUBSET DraftIds}

InitDraft ==
    /\ emails = (1 :> NewEmail(1))
    /\ nextId = 3
    /\ gmail = {1}
    /\ vstore = {}
    /\ queue = EmptyBag
    /\ fetch = [w \in Workers |-> IdleFetch]
    /\ backend = [w \in Workers |-> NoFetchYet]
    /\ resp = NoResp
    /\ body = NoBody
    /\ call = IdleCall
    /\ drafts \in DraftTables
    /\ sends = 0
    /\ rules = <<>>
    /\ logs = <<>>
    /\ deljob = IdleJob
    /\ poll = IdlePoll
    /\ passes = IdlePasses
    /\ QuietOthers
    /\ tasks = <<>>
    /\ ret = NoRet

NextDraft ==
    \/ \E d \in DraftRequestIds : send_draft(d)
    \/ \E d \in DraftRequestIds : delete_draft(d)

SpecDraft == InitDraft /\ [][NextDraft]_vars

(***************************************************************************)
(* SpecVec: similarity requests over any stored table and collection.      *)
(***************************************************************************)
\* stored rows, live or soft-deleted
DocIds == 1..MaxDocs

VecTables ==
    UNION {{[e \in D |-> [NewEmail(e) EXCEPT !.status = f[e]]] :
              f \in [D -> {UNREAD, DELETED}]} :
           D \in SUBSET DocIds}

InitVec ==
    /\ emails \in VecTables
    /\ nextId = MaxDocs + 1
    /\ gmail = DOMAIN emails
    /\ vstore \in SUBSET (DOMAIN emails)
    /\ queue = EmptyBag
    /\ fetch = [w \in Workers |-> IdleFetch]
    /\ backend = [w \in Workers |-> NoFetchYet]
    /\ resp = NoResp
    /\ body = NoBody
    /\ call = IdleCall
    /\ drafts = <<>>
    /\ sends = 0
    /\ rules = <<>>
    /\ logs = <<>>
    /\ deljob = IdleJob
    /\ poll = IdlePoll
    /\ passes = IdlePasses
    /\ QuietOthers
    /\ tasks = <<>>
    /\ ret = NoRet

NextVec ==
    \/ \E e \in DocIds, limit \in 1..MaxK : get_similar_emails(e, limit)
    \/ \E e \in DocIds, k \in Ks, has_db \in BOOLEAN : get_email_context_call(e, k, has_db)
    \/ \E k \in Ks, has_db \in BOOLEAN : search_similar_emails_call(k, has_db)

SpecVec == InitVec /\ [][NextVec]_vars

(***************************************************************************)
(* SpecEval: evaluate_rule over any stored email and any stored rule.      *)
(***************************************************************************)

\* what mail_parser hands to crud.create_email as sender_email / sender,
\* subject, body_text / body_html
EmailContents ==
    {[sender_email |-> <<"a">>, sender |-> <<"A", "b">>, subject |-> <<"b", "A">>,
      body_text |-> <<"a">>, body_html |-> <<>>],
     [sender_email |-> <<>>, sender |-> <<"A", "b">>, subject |-> <<"b">>,
      body_text |-> <<>>, body_html |-> <<"b">>],
     [sender_email |-> <<"b">>, sender |-> <<>>, subject |-> <<>>,
      body_text |-> <<>>, body_html |-> <<>>]}

\* a stored row with its content columns
EmailWithContent(e, content, t) ==
    content @@ [NewEmail(e) EXCEPT !.received_at = t]

\* RuleCondition.dict(): the four groups are always keys of the stored
\* object, None when the request left them out
SenderGroups ==
    {<<>>, [contains |-> <<"A">>], [equals |-> <<"a", "b">>], [regex |-> <<"(">>]}
SubjectGroups == {<<>>, [contains |-> <<"a">>], [starts_with |-> <<"B">>]}
BodyGroups == {<<>>, [contains |-> <<"a">>]}
BoundTexts == [form : BoundForms, t : Times]
DateRangeGroups ==
    {<<>>} \cup {[after |-> a] : a \in BoundTexts}
           \cup {[before |-> b] : b \in BoundTexts}
           \cup {[after |-> a, before |-> b] : a \in BoundTexts, b \in BoundTexts}
StoredConditions ==
    [sender : SenderGroups, subject : SubjectGroups, body : BodyGroups,
     date_range : DateRangeGroups]

\* RuleActionConfig.dict() of a rule that does nothing but count its matches
NoActions ==
    [type |-> "remind", category |-> None, mark_important |-> FALSE,
     generate_draft |-> FALSE, forward_to |-> None, remind_after_hours |-> 0]

\* the row crud.create_rule inserts
NewRule(is_active, conditions, actions) ==
    [is_active |-> is_active, conditions |-> conditions, actions |-> actions,
     priority |-> 0, match_count |-> 0, last_matched_at |-> NoTime]

InitEval ==
    /\ \E content \in EmailContents, t \in Times :
          emails = (1 :> EmailWithContent(1, content, t))
    /\ nextId = 2
    /\ gmail = {1}
    /\ vstore = {}
    /\ queue = EmptyBag
    /\ fetch = [w \in Workers |-> IdleFetch]
    /\ backend = [w \in Workers |-> NoFetchYet]
    /\ resp = NoResp
    /\ body = NoBody
    /\ call = IdleCall
    /\ drafts = <<>>
    /\ sends = 0
    /\ \E is_active \in BOOLEAN, conditions \in StoredConditions :
          rules = (1 :> NewRule(is_active, conditions, NoActions))
    /\ logs = <<>>
    /\ deljob = IdleJob
    /\ poll = IdlePoll
    /\ passes = IdlePasses
    /\ QuietOthers
    /\ tasks = <<>>
    /\ ret = NoRet

NextEval == \E e \in {1}, r \in {1} : evaluate_rule_call(e, r)

SpecEval == InitEval /\ [][NextEval]_vars

(***************************************************************************)
(* SpecRules: classification by the LLM and by rules. process_email and    *)
(* execute_rule_actions run against a stored email and a stored rule.      *)
(***************************************************************************)
\* RuleCondition.dict() of a rule created without conditions
NoConditions == [sender |-> <<>>, subject |-> <<>>, body |-> <<>>, date_range |-> <<>>]

\* RuleActionConfig.dict() of the stored rules
ActionConfigs ==
    {[type |-> "classify", category |-> "urgent", mark_important |-> TRUE,
      generate_draft |-> TRUE, forward_to |-> None, remind_after_hours |-> 0],
     [type |-> "classify", category |-> None, mark_important |-> TRUE,
      generate_draft |-> FALSE, forward_to |-> None, remind_after_hours |-> 0],
     [type |-> "forward", category |-> None, mark_important |-> FALSE,
      generate_draft |-> TRUE, forward_to |-> "boss", remind_after_hours |-> 0],
     [type |-> "forward", category |-> "urgent", mark_important |-> FALSE,
      generate_draft |-> FALSE, forward_to |-> None, remind_after_hours |-> 0],
     [type |-> "remind", category |-> None, mark_important |-> TRUE,
      generate_draft |-> FALSE, forward_to |-> None, remind_after_hours |-> 24]}

InitRules ==
    /\ \E content \in EmailContents : emails = (1 :> EmailWithContent(1, content, 1))
    /\ nextId = 2
    /\ gmail = {1}
    /\ vstore = {}
    /\ queue = EmptyBag
    /\ fetch = [w \in Workers |-> IdleFetch]
    /\ backend = [w \in Workers |-> NoFetchYet]
    /\ resp = NoResp
    /\ body = NoBody
    /\ call = IdleCall
    /\ drafts = <<>>
    /\ sends = 0
    /\ \E actions \in ActionConfigs : rules = (1 :> NewRule(TRUE, NoConditions, actions))
    /\ logs = <<>>
    /\ deljob = IdleJob
    /\ poll = IdlePoll
    /\ passes = IdlePasses
    /\ QuietOthers
    /\ tasks = <<>>
    /\ ret = NoRet

NextRules ==
    \/ \E e \in RequestIds, force \in BOOLEAN, has_llm \in BOOLEAN, reply \in LLMReplies :
          process_email(e, force, classify_email(has_llm, reply))
    \/ \E e \in RequestIds, draft_ok \in BOOLEAN, fault \in Faults :
          execute_rule_actions(e, 1, draft_ok, fault)

SpecRules == InitRules /\ [][NextRules]_vars

(***************************************************************************)
(* SpecToken: is_token_expired for any expiry at any clock value.          *)
(***************************************************************************)
Clock == 0..MaxClock

NextToken ==
    \E expires_at \in {NoTime} \cup Clock, now \in Clock :
       is_token_expired_call(expires_at, now)

SpecToken == Init /\ [][NextToken]_vars

(***************************************************************************)
(* SpecTasks: one task of any kind runs from submission to its end while   *)
(* a client polls its status.                                              *)
(***************************************************************************)
NextTasks ==
    \/ \E t \in TaskIds, kind \in TaskKinds : task_send(t, kind)
    \/ \E t \in TaskIds : task_start(t)
    \/ \E t \in TaskIds, total \in 0..MaxTotal : task_begin(t, total)
    \/ \E t \in TaskIds : task_loop(t)
    \/ \E t \in TaskIds : task_mark_done(t)
    \/ \E t \in TaskIds, kind \in TaskKinds, total \in 0..MaxTotal :
          \E value \in ReturnValues(kind, total) : task_return(t, value)
    \/ \E t \in TaskIds : task_raise(t)
    \/ \E t \in PolledIds : get_task_status(t)
    \/ status_pending
    \/ status_test_progress
    \/ status_progress_info
    \/ status_progress_state
    \/ status_test_success
    \/ status_other_state
    \/ status_other_info

SpecTasks == Init /\ [][NextTasks]_vars

(***************************************************************************)
(* SpecDelete: delete_email tasks, one after the other, over stored        *)
(* emails with drafts and documents, against a provider that may answer    *)
(* any status.                                                             *)
(***************************************************************************)
InitDelete ==
    /\ \E S \in SUBSET EmailIds :
          /\ emails = [e \in S |-> [NewEmail(e) EXCEPT
                                      !.status = IF e = 1 THEN DELETED ELSE UNREAD]]
          /\ drafts \in UNION {[D -> [email_id : S, is_sent : {FALSE}, provider_draft_id : {None}]] :
                                  D \in SUBSET DraftIds}
          /\ vstore = S
    /\ nextId = MaxEmailId + 1
    /\ gmail = MsgIds
    /\ queue = EmptyBag
    /\ fetch = [w \in Workers |-> IdleFetch]
    /\ backend = [w \in Workers |-> NoFetchYet]
    /\ resp = NoResp
    /\ body = NoBody
    /\ call = IdleCall
    /\ sends = 0
    /\ rules = <<>>
    /\ logs = <<>>
    /\ deljob = IdleJob
    /\ poll = IdlePoll
    /\ passes = IdlePasses
    /\ QuietOthers
    /\ tasks = <<>>
    /\ ret = NoRet

NextDelete ==
    \/ \E e \in RequestIds : delete_email_start(e)
    \/ /\ deljob.pc = "call"
       /\ call.pc = "idle"
       /\ \E has_service \in BOOLEAN, refresh_ok \in BOOLEAN :
             gmail_call("delete_message", has_service, refresh_ok)
    \/ \E status \in HttpStatuses : gmail_execute(status)
    \/ \E refresh_ok \in BOOLEAN : gmail_handle_401(refresh_ok)
    \/ delete_email_provider_done
    \/ \E vector_ok \in BOOLEAN : delete_email_vector(vector_ok)
    \/ \E commit_ok \in BOOLEAN : delete_email_row(commit_ok)

SpecDelete == InitDelete /\ [][NextDelete]_vars

(***************************************************************************)
(* SpecPass: workers run process_email_with_rules over the same email and  *)
(* the same stored rules. SpecOnePass: one worker does.                    *)
(***************************************************************************)
RuleIds == 1..MaxRules

\* conditions of a stored rule: none, or a subject that starts with "b"
PassConditions ==
    {NoConditions, [NoConditions EXCEPT !.subject = [starts_with |-> <<"B">>]]}

\* RuleActionConfig.dict() of the stored rules
PassActions ==
    {[type |-> "classify", category |-> "urgent", mark_important |-> TRUE,
      generate_draft |-> FALSE, forward_to |-> None, remind_after_hours |-> 0],
     [type |-> "classify", category |-> NORMAL, mark_important |-> FALSE,
      generate_draft |-> FALSE, forward_to |-> None, remind_after_hours |-> 0],
     [type |-> "remind", category |-> None, mark_important |-> FALSE,
      generate_draft |-> FALSE, forward_to |-> None, remind_after_hours |-> 24]}

Priorities == {0, 1}

StoredRules ==
    {[NewRule(is_active, conditions, actions) EXCEPT !.priority = priority] :
        is_active \in BOOLEAN, conditions \in PassConditions, actions \in PassActions,
        priority \in Priorities}

InitPass ==
    /\ \E content \in EmailContents : emails = (1 :> EmailWithContent(1, content, 1))
    /\ nextId = 2
    /\ gmail = {1}
    /\ vstore = {}
    /\ queue = EmptyBag
    /\ fetch = [w \in Workers |-> IdleFetch]
    /\ backend = [w \in Workers |-> NoFetchYet]
    /\ resp = NoResp
    /\ body = NoBody
    /\ call = IdleCall
    /\ drafts = <<>>
    /\ sends = 0
    /\ rules \in [RuleIds -> StoredRules]
    /\ logs = <<>>
    /\ deljob = IdleJob
    /\ poll = IdlePoll
    /\ passes = IdlePasses
    /\ QuietOthers
    /\ tasks = <<>>
    /\ ret = NoRet

PassSteps(w) ==
    \/ process_email_with_rules(w, 1)
    \/ \E draft_ok \in BOOLEAN, fault \in Faults : pass_rule(w, draft_ok, fault)
    \/ \E t \in Times : pass_count(w, t)
    \/ pass_return(w)

NextPass == \E w \in Workers : PassSteps(w)

SpecPass == InitPass /\ [][NextPass]_vars

NextOnePass == PassSteps(1)

SpecOnePass == InitPass /\ [][NextOnePass]_vars

(***************************************************************************)
(* SpecUpdate: crud.update_email with any patch over stored emails.        *)
(***************************************************************************)
\* keyword arguments of update_email calls
Patches ==
    {[status |-> READ],
     [subject |-> <<"c">>],
     [sender_email |-> <<"c">>, status |-> READ],
     [category |-> "urgent", classification_confidence |-> 80]}

InitUpdate ==
    /\ \E S \in SUBSET EmailIds :
          /\ \E content \in EmailContents :
                \A x \in EmailContents : Len(x.subject) <= Len(content.subject)
                /\ emails = [e \in S |-> EmailWithContent(e, content, 1)]
          /\ vstore \in SUBSET S
    /\ nextId = MaxEmailId + 1
    /\ gmail = MsgIds
    /\ queue = EmptyBag
    /\ fetch = [w \in Workers |-> IdleFetch]
    /\ backend = [w \in Workers |-> NoFetchYet]
    /\ resp = NoResp
    /\ body = NoBody
    /\ call = IdleCall
    /\ drafts = <<>>
    /\ sends = 0
    /\ rules = <<>>
    /\ logs = <<>>
    /\ deljob = IdleJob
    /\ poll = IdlePoll
    /\ passes = IdlePasses
    /\ QuietOthers
    /\ tasks = <<>>
    /\ ret = NoRet

NextUpdate ==
    \E e \in RequestIds, kwargs \in Patches, outcome \in VectorOutcomes,
       vector_raises \in BOOLEAN :
          update_email_call(e, kwargs, outcome, vector_raises)

SpecUpdate == InitUpdate /\ [][NextUpdate]_vars

(***************************************************************************)
(* SpecGenerate: generate_draft jobs, one after the other, on a table of   *)
(* emails that does not change.                                            *)
(***************************************************************************)
InitGenerate ==
    /\ \E S \in SUBSET EmailIds :
          /\ emails = [e \in S |-> NewEmail(e)]
          /\ drafts \in UNION {[D -> [email_id : S, is_sent : BOOLEAN,
                                      provider_draft_id : {None}]] : D \in SUBSET {1}}
          /\ vstore = S
    /\ nextId = MaxEmailId + 1
    /\ gmail = MsgIds
    /\ queue = EmptyBag
    /\ fetch = [w \in Workers |-> IdleFetch]
    /\ backend = [w \in Workers |-> NoFetchYet]
    /\ resp = NoResp
    /\ body = NoBody
    /\ call = IdleCall
    /\ sends = 0
    /\ rules = <<>>
    /\ logs = <<>>
    /\ deljob = IdleJob
    /\ poll = IdlePoll
    /\ passes = IdlePasses
    /\ QuietOthers
    /\ tasks = <<>>
    /\ ret = NoRet

GenerateSteps ==
    \/ \E e \in RequestIds : generate_draft_start(e)
    \/ \E draft_ok \in BOOLEAN : generate_draft_body(draft_ok)
    \/ generate_draft_insert
    \/ \E outcome \in ProviderOutcomes : generate_draft_provider(outcome)

NextGenerate == GenerateSteps

SpecGenerate == InitGenerate /\ [][NextGenerate]_vars

(***************************************************************************)
(* SpecOwn: the delete_email job, the generate_draft job and the other     *)
(* callers of crud.create_draft, interleaved statement by statement.       *)
(***************************************************************************)
NextOwn ==
    \/ GenerateSteps
    \/ \E e \in RequestIds : create_draft(e)
    \/ NextDelete

SpecOwn == InitDelete /\ [][NextOwn]_vars

(***************************************************************************)
(* SpecMark: the mark-read, mark-unread and mark-important endpoints on    *)
(* rows whose status and flag agree with the provider's labels at first.   *)
(***************************************************************************)
\* the labels Gmail holds for a message whose row is in sync with it
LabelsOf(row) ==
    (IF row.status = UNREAD THEN {"UNREAD"} ELSE {}) \cup
    (IF row.is_important THEN {"IMPORTANT"} ELSE {})

InitMark ==
    /\ \E S \in SUBSET EmailIds :
          /\ \E f \in [S -> {UNREAD, READ} \X BOOLEAN] :
                emails = [e \in S |-> [NewEmail(e) EXCEPT !.status = f[e][1],
                                                          !.is_important = f[e][2]]]
          /\ vstore = S
    /\ labels = [e \in DOMAIN emails |-> LabelsOf(emails[e])]
    /\ nextId = MaxEmailId + 1
    /\ gmail = MsgIds
    /\ queue = EmptyBag
    /\ fetch = [w \in Workers |-> IdleFetch]
    /\ backend = [w \in Workers |-> NoFetchYet]
    /\ resp = NoResp
    /\ body = NoBody
    /\ call = IdleCall
    /\ drafts = <<>>
    /\ sends = 0
    /\ rules = <<>>
    /\ logs = <<>>
    /\ deljob = IdleJob
    /\ poll = IdlePoll
    /\ passes = IdlePasses
    /\ genjob = IdleGen
    /\ users = <<>>
    /\ accounts = <<>>
    /\ conn = IdleConns
    /\ dbtask = IdleTasks
    /\ progress = IdleProgress
    /\ tasks = <<>>
    /\ ret = NoRet

NextMark ==
    \/ \E e \in RequestIds, modify_ok \in BOOLEAN : mark_as_read(e, modify_ok)
    \/ \E e \in RequestIds : mark_as_unread(e)
    \/ \E e \in RequestIds, modify_ok \in BOOLEAN : mark_as_important(e, modify_ok)

SpecMark == InitMark /\ [][NextMark]_vars

(***************************************************************************)
(* SpecSyncList: list requests with sync_deleted set, over any stored      *)
(* table and any mailbox.                                                  *)
(***************************************************************************)
InitSyncList ==
    /\ emails \in EmailTables
    /\ nextId = MaxStored + 1
    /\ gmail \in SUBSET MsgIds
    /\ vstore = {}
    /\ queue = EmptyBag
    /\ fetch = [w \in Workers |-> IdleFetch]
    /\ backend = [w \in Workers |-> NoFetchYet]
    /\ resp = NoResp
    /\ body = NoBody
    /\ call = IdleCall
    /\ drafts = <<>>
    /\ sends = 0
    /\ rules = <<>>
    /\ logs = <<>>
    /\ deljob = IdleJob
    /\ poll = IdlePoll
    /\ passes = IdlePasses
    /\ QuietOthers
    /\ tasks = <<>>
    /\ ret = NoRet

NextSyncList ==
    \E status \in StatusParams, category \in {None},
       limit \in 1..MaxLimit, offset \in 0..MaxOffset, broker_ok \in BOOLEAN :
          get_emails_sync_deleted(status, category, limit, offset, broker_ok)

SpecSyncList == InitSyncList /\ [][NextSyncList]_vars

(***************************************************************************)
(* SpecConnect: OAuth callback and connect requests served by the server   *)
(* processes against one database, starting from empty tables.             *)
(* SpecOneConnect: the same requests served by one process, each to its    *)
(* end before the next.                                                    *)
(***************************************************************************)
InitConnect ==
    /\ emails = <<>>
    /\ nextId = 1
    /\ gmail = MsgIds
    /\ vstore = {}
    /\ queue = EmptyBag
    /\ fetch = [w \in Workers |-> IdleFetch]
    /\ backend = [w \in Workers |-> NoFetchYet]
    /\ resp = NoResp
    /\ body = NoBody
    /\ call = IdleCall
    /\ drafts = <<>>
    /\ sends = 0
    /\ rules = <<>>
    /\ logs = <<>>
    /\ deljob = IdleJob
    /\ poll = IdlePoll
    /\ passes = IdlePasses
    /\ QuietOthers
    /\ tasks = <<>>
    /\ ret = NoRet

NextConnect == \E w \in Workers : ConnectSteps(w)

SpecConnect == InitConnect /\ [][NextConnect]_vars

NextOneConnect == ConnectSteps(1)

SpecOneConnect == InitConnect /\ [][NextOneConnect]_vars

(***************************************************************************)
(* SpecSession: task invocations in the worker processes, one after the    *)
(* other in each process and side by side across processes.                *)
(***************************************************************************)
NextSession ==
    \E w \in Workers :
        \/ task_call(w)
        \/ task_db(w)
        \/ \E how \in TaskEndings : task_after_return(w, how)

SpecSession == InitConnect /\ [][NextSession]_vars

(***************************************************************************)
(* SpecProgress: fetch_emails_from_account over listings of every length   *)
(* up to MaxListed, with every outcome for every message.                  *)
(***************************************************************************)
NextProgress ==
    \/ \E total_messages \in 0..MaxListed : fetch_listed(total_messages)
    \/ \E outcome \in MessageOutcomes : fetch_message(outcome)
    \/ fetch_counted

SpecProgress == InitConnect /\ [][NextProgress]_vars

(***************************************************************************)
(* Properties                                                              *)
(***************************************************************************)
\* every page of the list without filters omits email_id, and the detail
\* endpoint answers 404 for it
Hidden(tbl, email_id) ==
    /\ \A limit \in 1..MaxLimit, offset \in 0..MaxOffset :
          \A page \in get_emails(tbl, None, None, limit, offset, TRUE) :
             email_id \notin Range(page.items)
    /\ get_email_detail(tbl, email_id) = 404

\* C1: while the last answered request is a single-email delete of an email
\* that existed (answered 200, or 500 when the job could not be submitted),
\* the list without a status filter does not contain that email and its
\* detail answers 404, whether the delete_email job is still queued, has
\* removed the row, or has run and failed.
C1_SoftDeleteHides ==
    (resp.op = "delete_email" /\ resp.code # 404) => Hidden(emails, resp.arg[1])

\* the delete endpoint answered 200, the job has run without removing the
\* row, and the row is still stored
C1_Witness ==
    /\ resp.op = "delete_email"
    /\ resp.code = 200
    /\ resp.arg[1] \in DOMAIN emails
    /\ ~BagIn(DeleteJob(resp.arg[1]), queue)

\* C2: in every step, a row whose status is DELETED either keeps that status
\* or is removed; no step sets it to UNREAD, READ or ARCHIVED.
C2_DeletedStaysDeleted ==
    [][\A e \in DOMAIN emails :
          emails[e].status = DELETED =>
             (e \notin DOMAIN emails' \/ emails'[e].status = DELETED)]_vars

C4_ConcurrentRunGoesOn ==
    \A w \in Workers : backend[w].message # "integrity_error"

\* C5: one call of a GmailService method makes at most two requests to the
\* provider: the first one and, after a 401, one retry.
C5_OneRetry == call.attempts <= 2

\* rows whose status is not DELETED
NotDeleted(tbl) == {e \in DOMAIN tbl : tbl[e].status # DELETED}

\* C6: a list call without status and category filter returns only rows
\* whose status is not DELETED, its total is the number of such rows, and
\* its page is the part of them that offset and limit select.
C6_DefaultListExcludesDeleted ==
    (resp.op = "get_emails" /\ resp.code = 200 /\ body.status = None
        /\ body.category = None)
       => /\ \A i \in DOMAIN body.items : emails[body.items[i]].status # DELETED
          /\ Range(body.items) \subseteq NotDeleted(emails)
          /\ body.total = Cardinality(NotDeleted(emails))
          /\ Len(body.items) = Min(resp.arg[1], Max(0, body.total - resp.arg[2]))

\* an unfiltered list call over a table holding a DELETED and an ARCHIVED
\* row has returned a non-empty page
C6_Witness ==
    /\ resp.op = "get_emails"
    /\ resp.code = 200
    /\ body.status = None
    /\ body.category = None
    /\ body.items # <<>>
    /\ \E e \in DOMAIN emails : emails[e].status = DELETED
    /\ \E e \in DOMAIN emails : emails[e].status = ARCHIVED

\* some id of the request names no row
SomeMissing(tbl, email_ids) ==
    \E i \in DOMAIN email_ids : email_ids[i] \notin DOMAIN tbl

\* C7: a batch-delete request with an id that names no row is answered 404,
\* submits no job and changes no row.
C7_BatchAllOrNothing ==
    [][\A ids \in BatchRequests, broker_ok \in BOOLEAN :
          (SomeMissing(emails, ids) /\ batch_delete_emails(ids, broker_ok))
             => (resp'.code = 404 /\ emails' = emails /\ queue' = queue)]_vars

\* a batch naming a stored, not yet deleted row and a missing row was
\* answered 404
C7_Witness ==
    /\ resp.op = "batch_delete_emails"
    /\ resp.code = 404
    /\ SomeMissing(emails, resp.arg)
    /\ \E i \in DOMAIN resp.arg :
          resp.arg[i] \in DOMAIN emails /\ emails[resp.arg[i]].status # DELETED

\* C8: a send request for a draft whose is_sent is true is answered with a
\* 4xx status and does not invoke the provider send.
C8_SentDraftRejected ==
    [][\A d \in DraftIds :
          (d \in DOMAIN drafts /\ drafts[d].is_sent /\ send_draft(d))
             => (resp'.code \in 400..499 /\ sends' = sends)]_vars

\* a send request for a stored draft with is_sent true was answered 400
C8_Witness ==
    /\ resp.op = "send_draft"
    /\ resp.code = 400
    /\ resp.arg[1] \in DOMAIN drafts
    /\ drafts[resp.arg[1]].is_sent

\* ids the sequence has handed out whose row is gone
HardDeleted == {e \in 1..(nextId - 1) : e \notin DOMAIN emails}

\* C9: no list that search_similar_emails or get_email_context may return,
\* with or without a db session, holds a document of a hard-deleted email.
C9_NoHardDeletedInSearch ==
    \A k \in 1..MaxK, has_db \in BOOLEAN :
       /\ \A docs \in search_similar_emails(vstore, emails, k, has_db) :
             Range(docs) \cap HardDeleted = {}
       /\ \A e \in DOMAIN emails :
             \A docs \in get_email_context(vstore, emails, e, k, has_db) :
                Range(docs) \cap HardDeleted = {}

GroupNames == {"sender", "subject", "body", "date_range"}

\* the named group of the rule's conditions passes for the email
GroupPasses(name, email, conditions) ==
    CASE name = "sender" -> check_sender_condition(email, conditions[name])
      [] name = "subject" -> check_subject_condition(email, conditions[name])
      [] name = "body" -> check_body_condition(email, conditions[name])
      [] name = "date_range" -> check_date_range_condition(email, conditions[name])

OnlyDateRange(rule) ==
    /\ rule.is_active
    /\ rule.conditions["sender"] = <<>>
    /\ rule.conditions["subject"] = <<>>
    /\ rule.conditions["body"] = <<>>

\* C12: a rule that tests only date_range rejects the email when a
\* well-formed after bound, with or without a Z suffix, lies after
\* received_at, or a well-formed before bound lies before it, and accepts
\* the email otherwise; a malformed bound is the only one that is ignored.
C12_WellFormedBoundsApply ==
    (ret.op = "evaluate_rule" /\ OnlyDateRange(ret.arg[2]))
       => LET received_at == ret.arg[1].received_at
              condition == ret.arg[2].conditions["date_range"]
              TooEarly == /\ "after" \in DOMAIN condition
                          /\ condition["after"].form # "malformed"
                          /\ received_at < condition["after"].t
              TooLate == /\ "before" \in DOMAIN condition
                         /\ condition["before"].form # "malformed"
                         /\ received_at > condition["before"].t
          IN  ret.value <=> ~(TooEarly \/ TooLate)

\* C13: every stored classification_confidence is NULL or between 0 and
\* 100, whatever the LLM answered, and a call of execute_rule_actions that
\* sets the email's category stores the confidence 90 with it.
C13_ConfidenceBounded ==
    /\ [](\A e \in DOMAIN emails :
             \/ emails[e].classification_confidence = NoConfidence
             \/ emails[e].classification_confidence \in 0..100)
    /\ [][\A e \in DOMAIN emails, draft_ok \in BOOLEAN, fault \in Faults :
             (ret'.op = "execute_rule_actions"
                 /\ execute_rule_actions(e, 1, draft_ok, fault)
                 /\ rules[1].actions.type = "classify"
                 /\ emails'[e].category = rules[1].actions.category
                 /\ \/ ret'.value.classified
                    \/ emails'[e].category # emails[e].category)
                => emails'[e].classification_confidence = 90]_vars

\* a rule's CLASSIFY action has run to its end and the email holds the
\* rule's category with confidence 90
C13_Witness ==
    /\ ret.op = "execute_rule_actions"
    /\ ret.value.classified
    /\ emails[1].category = rules[1].actions.category
    /\ emails[1].classification_confidence = 90
    /\ rules[1].match_count > 0

\* C15: every process_email invocation that finds its email adds one summary
\* entry to the logs table.
C15_ProcessEmailLogsRules ==
    [][\A e \in DOMAIN emails, force \in BOOLEAN, has_llm \in BOOLEAN, reply \in LLMReplies :
          process_email(e, force, classify_email(has_llm, reply))
             => Len(logs') = Len(logs) + 1]_vars

\* C20: whichever statement of execute_rule_actions fails, the actions of
\* the rule that come after it still take effect: the flag is set when the
\* failure was not its own, the draft is stored when the failure was not the
\* draft's, a forward is scheduled.
C20_LaterActionsStillRun ==
    [][\A e \in DOMAIN emails, draft_ok \in BOOLEAN, fault \in Faults :
          (ret'.op = "execute_rule_actions" /\ execute_rule_actions(e, 1, draft_ok, fault))
             => LET actions == rules[1].actions
                IN  /\ (actions.mark_important /\ fault # "mark_important")
                          => emails'[e].is_important
                    /\ (actions.generate_draft /\ draft_ok /\ fault # "create_draft")
                          => DOMAIN drafts' # DOMAIN drafts
                    /\ (actions.type = "forward" /\ actions.forward_to # None)
                          => ret'.value.forward_scheduled]_vars

\* C16: is_token_expired answers false exactly when an expiry is given and
\* lies more than five minutes after the current time.
C16_ExpiredWithinMargin ==
    ret.op = "is_token_expired"
       => LET expires_at == ret.arg[1]
              now == ret.arg[2]
          IN  (ret.value = FALSE)
                 <=> (expires_at # NoTime /\ expires_at - now > 5)

\* a token that expires in exactly five minutes was reported expired
C16_Witness ==
    /\ ret.op = "is_token_expired"
    /\ ret.arg[1] # NoTime
    /\ ret.arg[1] = ret.arg[2] + 5
    /\ ret.value = TRUE

\* C14: a status response for a task in state PENDING, PROGRESS or SUCCESS
\* holds the keys state, current, total, percent and status, its state is
\* the state the queue gave, and for SUCCESS its percent is 100.
C14_StatusShape ==
    (ret.op = "get_task_status" /\ ret.arg[2] \in {"PENDING", "PROGRESS", "SUCCESS"}
        /\ ret.value # ServerError)
       => /\ {"state", "current", "total", "percent", "status"} \subseteq DOMAIN ret.value
          /\ ret.value["state"] = ret.arg[2]
          /\ ret.arg[2] = "SUCCESS" => ret.value["percent"] = 100

\* C17: the delete_email task removes the Email row only after the provider
\* call returned success and after the vector-store delete was attempted;
\* when the provider call returns false or raises, the task returns
\* success = false and the emails and drafts tables stay as they were.
C17_RowRemovedLast ==
    /\ [][\A e \in EmailIds :
            (e \in DOMAIN emails /\ e \notin DOMAIN emails')
               => /\ deljob.pc = "row"
                  /\ deljob.email_id = e
                  /\ call.ret = "ok"
                  /\ deljob.vector \in {"deleted", "failed"}]_vars
    /\ [][(deljob.pc = "call" /\ call.pc = "done" /\ call.ret \in {"failure", "raised"})
             => /\ deljob'.pc = "done"
                /\ deljob'.result.success = FALSE
                /\ emails' = emails
                /\ drafts' = drafts]_vars
    /\ [][(emails' # emails \/ drafts' # drafts) => deljob.pc = "row"]_vars

\* a task whose vector-store delete failed has removed the row and its drafts
C17_Witness ==
    /\ deljob.pc = "done"
    /\ deljob.result.success
    /\ deljob.vector = "failed"
    /\ deljob.email_id \notin DOMAIN emails
    /\ deljob.email_id \in vstore
    /\ \A d \in DOMAIN drafts : drafts[d].email_id # deljob.email_id
    /\ drafts # <<>>

\* C18: when the provider answers a message delete with 403 (insufficient
\* permission or scope), the delete_email task returns a failure that
\* carries requires_reauth = true.
C18_PermissionNeedsReauth ==
    [][(deljob.pc = "call" /\ call.pc = "done" /\ call.status = 403)
          => Get(deljob'.result, "requires_reauth", FALSE)]_vars

\* C19: when the provider answers 429 to a message delete, delete_message
\* raises instead of returning False, and the delete_email task makes no
\* further provider call, returns success = false with the rate-limit
\* message, and leaves the Email row in place.
C19_RateLimitIsFatal ==
    /\ [](call.method = "delete_message" /\ call.pc = "done" /\ call.status = 429
             => call.ret = "raised" /\ call.exc = RATE_LIMITED)
    /\ [][(deljob.pc = "call" /\ call.pc = "done" /\ call.status = 429)
             => /\ call' = call
                /\ deljob'.pc = "done"
                /\ deljob'.result = [success |-> FALSE, message |-> RATE_LIMITED]
                /\ emails' = emails]_vars

\* a task ended on a 429 that came after a 401 and a token refresh
C19_Witness ==
    /\ deljob.pc = "done"
    /\ call.status = 429
    /\ call.depth > 1
    /\ deljob.result = [success |-> FALSE, message |-> RATE_LIMITED]
    /\ deljob.email_id \in DOMAIN emails

RECURSIVE SumOver(_, _)
SumOver(f, S) ==
    IF S = {} THEN 0
    ELSE LET x == CHOOSE x \in S : TRUE IN f[x] + SumOver(f, S \ {x})

\* C21: once no pass is running, every rule's match_count is the number of
\* its successful action sets over all workers' passes, a rule with a
\* successful action set is stamped, and a rule that is inactive or does not
\* match the email keeps match_count 0 and no stamp.
C21_CountsEverySuccess ==
    (\A w \in Workers : passes[w].pc = "idle")
       => \A r \in DOMAIN rules :
             LET successes == SumOver([w \in Workers |-> CopiesIn(r, passes[w].succeeded)], Workers)
             IN  /\ rules[r].match_count = successes
                 /\ successes > 0 => rules[r].last_matched_at # NoTime
                 /\ (~rules[r].is_active \/ ~evaluate_rule(emails[1], rules[r]))
                       => rules[r].match_count = 0 /\ rules[r].last_matched_at = NoTime

\* C30: at the end of a pass the rules were executed in descending priority
\* order, and when the classify statement of every executed CLASSIFY rule
\* committed, the email holds the category of the one executed last, which
\* no other of them undercuts in priority.
C30_LowestPriorityWins ==
    (passes[1].pc = "idle" /\ passes[1].runs > 0)
       => LET res == passes[1].results
              classifies == {i \in 1..Len(res) : Classifies(rules[res[i].rule_id].actions)}
          IN  /\ \A i, j \in 1..Len(res) :
                    i < j => rules[res[i].rule_id].priority >= rules[res[j].rule_id].priority
              /\ (\A i \in classifies : res[i].classified)
                    => \A i \in classifies :
                          (\A j \in classifies : j <= i)
                             => /\ emails[1].category = rules[res[i].rule_id].actions.category
                                /\ \A j \in classifies :
                                      rules[res[j].rule_id].priority
                                         >= rules[res[i].rule_id].priority

\* two CLASSIFY rules of different priority and category matched in one
\* pass, and the email holds the category of the lower one
C30_Witness ==
    /\ passes[1].pc = "idle"
    /\ Len(passes[1].results) = 2
    /\ \A i \in 1..2 : passes[1].results[i].success
    /\ rules[1].actions.type = "classify" /\ rules[2].actions.type = "classify"
    /\ rules[1].actions.category # rules[2].actions.category
    /\ rules[1].priority < rules[2].priority
    /\ emails[1].category = rules[1].actions.category

\* C22: update_email on an existing email commits the patch and returns
\* without raising; it calls the vector store exactly when the patch touches
\* subject, body_text, body_html, sender or sender_email.
C22_UpdateNeverRaises ==
    (ret.op = "update_email" /\ ret.value.found)
       => /\ \A k \in DOMAIN ret.arg[2] : emails[ret.arg[1]][k] = ret.arg[2][k]
          /\ ret.value.vector_call = (DOMAIN ret.arg[2] \cap vector_content_fields # {})
          /\ ~ret.value.raised

\* C23: once generate_draft has stored its Draft row, a provider call that
\* answers None or raises leaves the row stored with provider_draft_id null
\* and the job returns success true with the id of the row.
C23_MirrorFailureStillSucceeds ==
    (genjob.pc = "done" /\ genjob.draft_id # 0 /\ genjob.outcome \in {"none", "raised"})
       => /\ Persisted(drafts, genjob)
          /\ drafts[genjob.draft_id].provider_draft_id = None
          /\ genjob.result.success
          /\ genjob.result.draft_id = genjob.draft_id

\* C28: every Draft row names an Email row that exists, whatever the
\* interleaving of the delete job with the operations that create drafts.
C28_DraftsHaveTheirEmail ==
    \A d \in DOMAIN drafts : drafts[d].email_id \in DOMAIN emails

\* the delete job removed an email after the generate_draft job had read it,
\* and the job's insert was refused; the rows that are left name stored emails
C28_Witness ==
    /\ deljob.pc = "done"
    /\ deljob.result.success
    /\ genjob.pc = "done"
    /\ genjob.email_id = deljob.email_id
    /\ genjob.result.message = "IntegrityError"
    /\ drafts # <<>>

\* C27: when mark-read, mark-unread or mark-important answers success, the
\* row and the provider's labels of its message agree on what was marked:
\* READ without the label UNREAD, UNREAD with it, important with IMPORTANT.
C27_SuccessMeansMirrored ==
    (resp.code = 200 /\ resp.op \in {"mark_as_read", "mark_as_unread", "mark_as_important"})
       => LET row == emails[resp.arg[1]]
              lbl == labels[row.provider_message_id]
          IN  /\ resp.op = "mark_as_read" => (row.status = READ /\ "UNREAD" \notin lbl)
              /\ resp.op = "mark_as_unread" => (row.status = UNREAD /\ "UNREAD" \in lbl)
              /\ resp.op = "mark_as_important" => (row.is_important /\ "IMPORTANT" \in lbl)

\* C24: after a list call with sync_deleted, every email of the queried page
\* whose message the mailbox no longer holds is DELETED, has a delete_email
\* job in the broker, is named in deleted_ids and is not among the items.
C24_AbsentEmailsAreSwept ==
    (resp.op = "get_emails_sync_deleted" /\ resp.code = 200)
       => \A i \in DOMAIN ret.value.page :
             LET email_id == ret.value.page[i]
             IN  emails[email_id].provider_message_id \notin gmail
                    => /\ emails[email_id].status = DELETED
                       /\ BagIn(DeleteJob(email_id), queue)
                       /\ email_id \in Range(body.deleted_ids)
                       /\ email_id \notin Range(body.items)

C26_SessionPerInvocation ==
    /\ \A w \in Workers :
          LET inst == dbtask.procs[w]
          IN  /\ Cardinality(inst.used) <= 1
              /\ inst.pc = "running" =>
                    /\ \A s \in inst.used : dbtask.sessions[s] = "open" /\ inst.db = s
                    /\ inst.used = {} => inst.db = 0
              /\ inst.pc = "idle" =>
                    /\ inst.db = 0
                    /\ \A s \in inst.used : dbtask.sessions[s] = "closed"
    /\ \A v, w \in Workers :
          v # w => dbtask.procs[v].used \cap dbtask.procs[w].used = {}

\* a process whose earlier invocation raised runs a later invocation on a
\* session of its own, next to an invocation of the other process
C26_Witness ==
    /\ \A w \in Workers : dbtask.procs[w].pc = "running" /\ dbtask.procs[w].used # {}
    /\ \E w \in Workers : dbtask.procs[w].how = "raised"
    /\ \E s \in DOMAIN dbtask.sessions : dbtask.sessions[s] = "closed"

\* C29: every payload fetch_emails_from_account publishes has 0 <= current
\* <= total and a percent within 0..100 that is no lower than the one before
\* it, for the empty listing too; when the task ends with success true its
\* three counters add up to total_messages.
C29_CountersAndProgress ==
    /\ \A i \in DOMAIN progress.published :
          LET meta == progress.published[i]
          IN  /\ 0 <= meta.current /\ meta.current <= meta.total
              /\ 0 <= meta.percent /\ meta.percent <= 100
              /\ \A j \in DOMAIN progress.published :
                    i < j => meta.percent <= progress.published[j].percent
    /\ (progress.pc = "done" /\ progress.result.success)
          => progress.result.new_count + progress.result.skipped_count
                + progress.result.error_count = progress.result.total_messages

\* a fetch of more than ten messages ended with success after it created,
\* skipped and failed on messages and reported at the tenth and the last
C29_Witness ==
    /\ progress.pc = "done"
    /\ progress.result.success
    /\ progress.total > ReportEvery("fetch_emails_from_account")
    /\ Len(progress.published) = 4
    /\ progress.new_count > 0 /\ progress.skipped_count > 0 /\ progress.error_count > 0

====
